---- MODULE Spec2Model ----
(***************************************************************************)
(* Model of pipeline/mapping_rules.py: the deterministic categorization    *)
(* engine.  Texts are TLA+ strings over printable ASCII (on which          *)
(* unicodedata.normalize('NFKC', s) is the identity); Python's None is the *)
(* sentinel string None.  Regular expressions are modelled by matchers for *)
(* the shapes the source uses: \b(a|b|...)\b over literal alternatives     *)
(* (optional groups expanded), \d, \d{m,n}, and the date / time / currency *)
(* / key-value patterns.  Alternatives written in Devanagari or Tamil      *)
(* cannot match an ASCII text and are left out of the alternative sets.    *)
(* Confidence values are in hundredths (0.7 is 70).                        *)
(***************************************************************************)
EXTENDS Integers, Sequences, FiniteSets, TLC

None == "<None>"
\* a value that is not a str and is truthy: the number 123
NonStr == "<int 123>"
\* the exception unicodedata.normalize raises for an argument that is not a str
TypeError == "<TypeError>"
\* an exception that leaves the function in place of a return value
Raise(e) == <<e>>

(***************************************************************************)
(* Characters                                                              *)
(***************************************************************************)
UpperChars == "ABCDEFGHIJKLMNOPQRSTUVWXYZ"
LowerChars == "abcdefghijklmnopqrstuvwxyz"
Digits == {"0", "1", "2", "3", "4", "5", "6", "7", "8", "9"}
LowerSet == {SubSeq(LowerChars, i, i) : i \in 1..26}
UpperSet == {SubSeq(UpperChars, i, i) : i \in 1..26}
SpaceSet == {" ", "\n", "\t"}

CharAt(t, i) == SubSeq(t, i, i)

\* str.lower() on one character
LowerChar(c) ==
    IF c \in UpperSet
    THEN CharAt(LowerChars, CHOOSE i \in 1..26 : CharAt(UpperChars, i) = c)
    ELSE c

\* \w of the re module
IsWordChar(c) == c \in LowerSet \/ c \in UpperSet \/ c \in Digits \/ c = "_"
\* \s of the re module
IsSpace(c) == c \in SpaceSet

RECURSIVE MapChars(_, _, _)
\* step = "lower": s.lower(); step = "punct": re.sub(r"[^\w\s$]", " ", s)
MapChars(s, step, i) ==
    IF i > Len(s) THEN ""
    ELSE LET c == CharAt(s, i)
             d == IF step = "lower" THEN LowerChar(c)
                  ELSE IF IsWordChar(c) \/ IsSpace(c) \/ c = "$" THEN c ELSE " "
         IN d \o MapChars(s, step, i + 1)

RECURSIVE CollapseWs(_, _)
\* re.sub(r"\s+", " ", s): every maximal run of whitespace becomes one space
CollapseWs(s, i) ==
    IF i > Len(s) THEN ""
    ELSE IF IsSpace(CharAt(s, i))
         THEN (IF i > 1 /\ IsSpace(CharAt(s, i - 1)) THEN "" ELSE " ")
              \o CollapseWs(s, i + 1)
         ELSE CharAt(s, i) \o CollapseWs(s, i + 1)

RECURSIVE LStrip(_)
LStrip(s) == IF Len(s) > 0 /\ IsSpace(CharAt(s, 1)) THEN LStrip(Tail(s)) ELSE s
RECURSIVE RStrip(_)
RStrip(s) ==
    IF Len(s) > 0 /\ IsSpace(CharAt(s, Len(s)))
    THEN RStrip(SubSeq(s, 1, Len(s) - 1)) ELSE s
\* str.strip()
Strip(s) == RStrip(LStrip(s))

\* A variant that collapses whitespace before it replaces punctuation.
normalize_text_collapse_first(s) ==
    IF s = None \/ s = "" THEN ""
    ELSE Strip(MapChars(CollapseWs(MapChars(s, "lower", 1), 1), "punct", 1))

normalize_text(s) ==
    IF s = None \/ s = "" THEN ""
    ELSE IF s = NonStr THEN TypeError
    ELSE Strip(CollapseWs(MapChars(MapChars(s, "lower", 1), "punct", 1), 1))

norm(s) == normalize_text(s)

(***************************************************************************)
(* Substring and regular-expression matching                               *)
(***************************************************************************)
\* Python's  k in t
Contains(t, k) ==
    \E i \in 1..(Len(t) - Len(k) + 1) : SubSeq(t, i, i + Len(k) - 1) = k

\* str.endswith
EndsWith(t, k) ==
    Len(t) >= Len(k) /\ SubSeq(t, Len(t) - Len(k) + 1, Len(t)) = k

WordAt(t, i) == i >= 1 /\ i <= Len(t) /\ IsWordChar(CharAt(t, i))
DigitAt(t, i) == i >= 1 /\ i <= Len(t) /\ CharAt(t, i) \in Digits
SpaceAt(t, i) == i >= 1 /\ i <= Len(t) /\ IsSpace(CharAt(t, i))
\* \b at the position just before character p (p in 1..Len(t)+1)
Boundary(t, p) == WordAt(t, p - 1) # WordAt(t, p)
LitAt(t, i, k) == i + Len(k) - 1 <= Len(t) /\ SubSeq(t, i, i + Len(k) - 1) = k
\* \d{n} starting at i
DigitsAt(t, i, n) == \A j \in i..(i + n - 1) : DigitAt(t, j)

\* re.search(r"\b(a1|a2|...)\b", t)
SearchWord(t, alts) ==
    \E i \in 1..Len(t) :
        /\ Boundary(t, i)
        /\ \E k \in alts : LitAt(t, i, k) /\ Boundary(t, i + Len(k))

\* re.search(r"\d", t)
SearchDigit(t) == \E i \in 1..Len(t) : DigitAt(t, i)

\* re.search(r"\bonly \d+\b", t)
SearchOnlyDigits(t) ==
    \E i \in 1..Len(t) :
        /\ Boundary(t, i) /\ LitAt(t, i, "only ")
        /\ \E n \in 1..Len(t) : DigitsAt(t, i + 5, n) /\ Boundary(t, i + 5 + n)

\* re.search(r"\b\d{a}[/-]\d{b}[/-]\d{c}\b", t), a in amin..amax etc.
SearchDate(t, as, bs, cs) ==
    \E i \in 1..Len(t), a \in as, b \in bs, c \in cs :
        /\ Boundary(t, i) /\ DigitsAt(t, i, a)
        /\ i + a <= Len(t) /\ CharAt(t, i + a) \in {"/", "-"}
        /\ DigitsAt(t, i + a + 1, b)
        /\ i + a + 1 + b <= Len(t) /\ CharAt(t, i + a + 1 + b) \in {"/", "-"}
        /\ DigitsAt(t, i + a + b + 2, c)
        /\ Boundary(t, i + a + b + 2 + c)

\* re.search(r"\b\d{1,2}:\d{2}(?::\d{2})?\b", t)
SearchTime(t) ==
    \E i \in 1..Len(t), a \in 1..2 :
        /\ Boundary(t, i) /\ DigitsAt(t, i, a)
        /\ LitAt(t, i + a, ":") /\ DigitsAt(t, i + a + 1, 2)
        /\ \/ Boundary(t, i + a + 3)
           \/ /\ LitAt(t, i + a + 3, ":") /\ DigitsAt(t, i + a + 4, 2)
              /\ Boundary(t, i + a + 6)

\* re.search(r"\b[a-z][a-z0-9_\s]{2,}:\s*\S+", t)
SearchKeyValue(t) ==
    \E i \in 1..Len(t), j \in 1..Len(t) :
        /\ Boundary(t, i) /\ CharAt(t, i) \in LowerSet
        /\ j >= i + 3 /\ CharAt(t, j) = ":"
        /\ \A m \in (i + 1)..(j - 1) :
               LET c == CharAt(t, m)
               IN c \in LowerSet \/ c \in Digits \/ c = "_" \/ IsSpace(c)
        /\ \E m \in (j + 1)..Len(t) : ~IsSpace(CharAt(t, m))

\* re.search(r"(?:\$)\s?\d{2,6}", t)
SearchCurrency(t) ==
    \E i \in 1..Len(t) :
        /\ CharAt(t, i) = "$"
        /\ \/ DigitsAt(t, i + 1, 2)
           \/ SpaceAt(t, i + 1) /\ DigitsAt(t, i + 2, 2)

\* re.search(r"\b\d{2,6}\b", t)
SearchPlainAmount(t) ==
    \E i \in 1..Len(t), n \in 2..6 :
        Boundary(t, i) /\ DigitsAt(t, i, n) /\ Boundary(t, i + n)

\* _match_any(text, keywords)
match_any(text, keywords) ==
    LET t == norm(text) IN \E k \in keywords : Contains(t, k)

\* _regex_any(text, [r"\b(a1|a2|...)\b"]); the text is lowercase after norm, so
\* re.IGNORECASE changes nothing for the lowercase alternatives
regex_any(text, alts) ==
    LET t == norm(text) IN SearchWord(t, alts)

(***************************************************************************)
(* Strong-rule extractors                                                  *)
(***************************************************************************)
AppNotOpenAlts ==
    {"app not open", "app not opening", "can't open", "can't open app",
     "cannot open", "cannot open app"}
LagAlts == {"lag", "lag issue", "app lag", "slow", "sluggish", "takes too long"}
NetAlts ==
    {"net", "netissue", "net issue", "network", "no internet", "server down",
     "timeout"}
NetLocalAlts ==
    {"internet nahi", "net problem", "server band", "network down", "server nahi"}
RateCardAlts ==
    {"ratecard", "rate card", "ratecard not found", "rate card not found",
     "ratecard missing", "rate card missing"}
MoneyAlts ==
    {"sell amount", "sell", "coin", "coins", "amount", "balance", "incent",
     "incentive"}
QualityAlts ==
    {"quality", "bad quality", "quality issue", "damaged", "damage", "spoil",
     "spoiled", "waste", "dented"}
NotificationAlts ==
    {"stop notification", "stop notifications", "stop the notification",
     "stop the notifications", "disable notification", "disable notifications",
     "turn off notification", "turn off notifications"}
WalletAlts == {"bhim", "phonepe", "gpay", "paytm", "tez"}
PaymentFailAlts ==
    {"upi fail", "upi failed", "payment fail", "payment failed",
     "payment pending", "gateway error"}

\* A variant that tests the connectivity group before the performance group.
CommentRules_connectivity_first(t) ==
    IF t = "" THEN None
    ELSE IF \/ regex_any(t, MoneyAlts)
            \/ regex_any(t, {"amount mismatch", "wrong amount"})
            \/ SearchOnlyDigits(norm(t))
    THEN "data_integrity_issues"
    ELSE IF regex_any(t, AppNotOpenAlts) THEN "functional_errors"
    ELSE IF regex_any(t, NetAlts) \/ regex_any(t, NetLocalAlts)
    THEN "connectivity_problems"
    ELSE IF regex_any(t, LagAlts) THEN "performance_issues"
    ELSE IF regex_any(t, NotificationAlts) THEN "feature_requests"
    ELSE IF regex_any(t, RateCardAlts) THEN "functional_errors"
    ELSE IF regex_any(t, QualityAlts) THEN "product_quality_issues"
    ELSE IF match_any(t, {"feature request", "feature", "would be great",
                          "please add", "enhancement"})
    THEN "feature_requests"
    ELSE IF match_any(t, {"unable to connect", "no internet", "network error",
                          "api failed", "server error", "timeout"})
    THEN "connectivity_problems"
    ELSE IF \/ match_any(t, {"login", "sign in", "authentication", "password",
                             "otp", "permission denied", "access denied",
                             "session", "pin", "mpin", "forgot password"})
            \/ regex_any(t, {"otp nahi", "otp not received", "otp failed",
                             "cannot login", "cant login"})
    THEN "authentication_access"
    ELSE IF match_any(t, {"slow", "lag", "freeze", "freezes", "hanging",
                          "loading forever", "takes too long", "sluggish"})
    THEN "performance_issues"
    ELSE IF match_any(t, {"crash", "crashes", "force close", "stopped working",
                          "app closed unexpectedly"})
    THEN "crash_stability"
    ELSE IF \/ match_any(t, {"printer", "bluetooth", "weighing scale",
                             "payment gateway", "google", "firebase", "upi",
                             "razorpay", "gateway", "transaction failed"})
            \/ regex_any(t, WalletAlts) \/ regex_any(t, PaymentFailAlts)
    THEN "integration_failures"
    ELSE IF match_any(t, {"settings", "configuration", "preference",
                          "does not save setting", "default value wrong"})
    THEN "configuration_settings"
    ELSE IF match_any(t, {"wrong total", "incorrect", "mismatch", "duplicate",
                          "missing data", "data lost", "not saved"})
    THEN "data_integrity_issues"
    ELSE IF match_any(t, {"ui", "ux", "alignment", "overlap", "cut off",
                          "hard to read", "too small", "button not visible"})
    THEN "ui_ux_issues"
    ELSE IF match_any(t, {"does not work", "not working", "cannot", "can't",
                          "fails", "not possible", "broken", "stuck action"})
    THEN "functional_errors"
    ELSE IF match_any(t, {"only on my phone", "android 14", "ios", "tablet",
                          "resolution", "screen size"})
    THEN "compatibility_issues"
    ELSE None

\* the rule chain of categorize_from_comment over t = _norm(comment)
CommentRules(t) ==
    IF t = "" THEN None
    ELSE IF \/ regex_any(t, MoneyAlts)
            \/ regex_any(t, {"amount mismatch", "wrong amount"})
            \/ SearchOnlyDigits(norm(t))
    THEN "data_integrity_issues"
    ELSE IF regex_any(t, AppNotOpenAlts) THEN "functional_errors"
    ELSE IF regex_any(t, LagAlts) THEN "performance_issues"
    ELSE IF regex_any(t, NetAlts) \/ regex_any(t, NetLocalAlts)
    THEN "connectivity_problems"
    ELSE IF regex_any(t, NotificationAlts) THEN "feature_requests"
    ELSE IF regex_any(t, RateCardAlts) THEN "functional_errors"
    ELSE IF regex_any(t, QualityAlts) THEN "product_quality_issues"
    ELSE IF match_any(t, {"feature request", "feature", "would be great",
                          "please add", "enhancement"})
    THEN "feature_requests"
    ELSE IF match_any(t, {"unable to connect", "no internet", "network error",
                          "api failed", "server error", "timeout"})
    THEN "connectivity_problems"
    ELSE IF \/ match_any(t, {"login", "sign in", "authentication", "password",
                             "otp", "permission denied", "access denied",
                             "session", "pin", "mpin", "forgot password"})
            \/ regex_any(t, {"otp nahi", "otp not received", "otp failed",
                             "cannot login", "cant login"})
    THEN "authentication_access"
    ELSE IF match_any(t, {"slow", "lag", "freeze", "freezes", "hanging",
                          "loading forever", "takes too long", "sluggish"})
    THEN "performance_issues"
    ELSE IF match_any(t, {"crash", "crashes", "force close", "stopped working",
                          "app closed unexpectedly"})
    THEN "crash_stability"
    ELSE IF \/ match_any(t, {"printer", "bluetooth", "weighing scale",
                             "payment gateway", "google", "firebase", "upi",
                             "razorpay", "gateway", "transaction failed"})
            \/ regex_any(t, WalletAlts) \/ regex_any(t, PaymentFailAlts)
    THEN "integration_failures"
    ELSE IF match_any(t, {"settings", "configuration", "preference",
                          "does not save setting", "default value wrong"})
    THEN "configuration_settings"
    ELSE IF match_any(t, {"wrong total", "incorrect", "mismatch", "duplicate",
                          "missing data", "data lost", "not saved"})
    THEN "data_integrity_issues"
    ELSE IF match_any(t, {"ui", "ux", "alignment", "overlap", "cut off",
                          "hard to read", "too small", "button not visible"})
    THEN "ui_ux_issues"
    ELSE IF match_any(t, {"does not work", "not working", "cannot", "can't",
                          "fails", "not possible", "broken", "stuck action"})
    THEN "functional_errors"
    ELSE IF match_any(t, {"only on my phone", "android 14", "ios", "tablet",
                          "resolution", "screen size"})
    THEN "compatibility_issues"
    ELSE None

categorize_from_comment(comment) == CommentRules(norm(comment))

\* the rule chain of categorize_from_ocr over t = _norm(ocr_text)
OcrRules(t) ==
    IF t = "" THEN None
    ELSE IF regex_any(t, AppNotOpenAlts) THEN "functional_errors"
    ELSE IF regex_any(t, LagAlts) THEN "performance_issues"
    ELSE IF regex_any(t, NetAlts) THEN "connectivity_problems"
    ELSE IF regex_any(t, RateCardAlts) THEN "functional_errors"
    ELSE IF regex_any(t, MoneyAlts) THEN "data_integrity_issues"
    ELSE IF regex_any(t, QualityAlts) THEN "product_quality_issues"
    ELSE IF match_any(t, {"error", "exception", "fatal", "stack trace"})
    THEN "functional_errors"
    ELSE IF \/ match_any(t, {"sign in", "login", "password", "otp", "pin", "mpin"})
            \/ regex_any(t, {"otp nahi"})
    THEN "authentication_access"
    ELSE IF match_any(t, {"unable to connect", "no internet", "network error",
                          "api request failed", "timeout"})
    THEN "connectivity_problems"
    ELSE IF /\ match_any(t, {"loading", "please wait", "processing"})
            /\ ~match_any(t, {"success", "completed"})
    THEN "performance_issues"
    ELSE IF match_any(t, {"settings", "preferences", "configuration"})
    THEN "configuration_settings"
    ELSE IF \/ match_any(t, {"payment", "transaction", "gateway", "upi",
                             "printer", "bluetooth"})
            \/ regex_any(t, WalletAlts) \/ regex_any(t, PaymentFailAlts)
    THEN "integration_failures"
    ELSE IF /\ match_any(t, {"total", "balance", "amount"})
            /\ match_any(t, {"wrong", "mismatch", "not matching"})
    THEN "data_integrity_issues"
    ELSE None

categorize_from_ocr(ocr_text) == OcrRules(norm(ocr_text))

\* A variant that looks for login and signin before screenshot and error.
FilenameRules_login_first(f) ==
    IF f = "" THEN None
    ELSE IF EndsWith(f, ".txt") \/ EndsWith(f, ".log") THEN None
    ELSE IF Contains(f, "login") \/ Contains(f, "signin") THEN "authentication_access"
    ELSE IF Contains(f, "screenshot") /\ Contains(f, "error") THEN "functional_errors"
    ELSE IF Contains(f, "timeout") \/ Contains(f, "network") THEN "connectivity_problems"
    ELSE None

\* the rule chain of categorize_from_filename over f = _norm(filename)
FilenameRules(f) ==
    IF f = "" THEN None
    ELSE IF EndsWith(f, ".txt") \/ EndsWith(f, ".log") THEN None
    ELSE IF Contains(f, "screenshot") /\ Contains(f, "error") THEN "functional_errors"
    ELSE IF Contains(f, "login") \/ Contains(f, "signin") THEN "authentication_access"
    ELSE IF Contains(f, "timeout") \/ Contains(f, "network") THEN "connectivity_problems"
    ELSE None

categorize_from_filename(filename) == FilenameRules(norm(filename))

\* A variant whose auth override does not look at the prediction.
post_adjustment_auth_always(model_pred, signals) ==
    IF signals.explicit_crash THEN "crash_stability"
    ELSE IF signals.explicit_connectivity THEN "connectivity_problems"
    ELSE IF signals.explicit_auth THEN "authentication_access"
    ELSE model_pred

\* post_adjustment(model_pred, signals)
post_adjustment(model_pred, signals) ==
    IF signals.explicit_crash THEN "crash_stability"
    ELSE IF signals.explicit_connectivity THEN "connectivity_problems"
    ELSE IF /\ signals.explicit_auth
            /\ model_pred \in {None, "ui_ux_issues", "unclear_insufficient_info"}
    THEN "authentication_access"
    ELSE model_pred

Min(a, b) == IF a < b THEN a ELSE b
Max(a, b) == IF a > b THEN a ELSE b

\* A scorer without the final clamp and with an unbounded keyword bonus.
compute_confidence_unclamped(matched_keywords, structured_present, strong_rule, model_used, final_category) ==
    LET c0 == IF strong_rule THEN 70 ELSE 30
        c1 == IF matched_keywords # 0
              THEN Max(c0, 70 + 15 * (matched_keywords - 1)) ELSE c0
        c2 == IF structured_present /\ c1 < 85 THEN c1 + 5 ELSE c1
        c3 == IF model_used /\ c2 < 70 THEN 70 ELSE c2
    IN c3

\* A variant that adds the structured-token bonus whatever the value is.
compute_confidence_no_threshold(matched_keywords, structured_present, strong_rule, model_used, final_category) ==
    LET c0 == IF strong_rule THEN 70 ELSE 30
        c1 == IF matched_keywords # 0
              THEN Max(c0, 70 + Min(20, 5 * (matched_keywords - 1))) ELSE c0
        c2 == IF structured_present THEN c1 + 5 ELSE c1
        c3 == IF model_used /\ c2 < 70 THEN 70 ELSE c2
    IN Max(0, Min(99, c3))

\* _compute_confidence, in hundredths
compute_confidence(matched_keywords, structured_present, strong_rule, model_used, final_category) ==
    LET c0 == IF strong_rule THEN 70 ELSE 30
        c1 == IF matched_keywords # 0
              THEN Max(c0, 70 + Min(20, 5 * (matched_keywords - 1))) ELSE c0
        c2 == IF structured_present /\ c1 < 85 THEN c1 + 5 ELSE c1
        c3 == IF model_used /\ c2 < 70 THEN 70 ELSE c2
    IN Max(0, Min(99, c3))

(***************************************************************************)
(* The rule catalog: module globals, set once when the module is imported  *)
(***************************************************************************)
VARIABLES
    CANONICAL_CATEGORIES,  \* set of category ids
    PRIORITY_ORDER,        \* sequence of category ids
    KEYWORD_MAP,           \* sequence of <<keyword, category>>, in file order
    REGEX_MAP,             \* sequence of [pat, alts, cat]: pat is \b(alts)\b
    STRUCT_RE,             \* sequence of structured-token pattern names
    pc,                    \* "idle" | "returned" | "again"
    call,                  \* the call made: [op, ...arguments]
    ret,                   \* what the call returned
    ret2                   \* what the same call returned when made again

catalog == <<CANONICAL_CATEGORIES, PRIORITY_ORDER, KEYWORD_MAP, REGEX_MAP, STRUCT_RE>>
vars == <<CANONICAL_CATEGORIES, PRIORITY_ORDER, KEYWORD_MAP, REGEX_MAP, STRUCT_RE,
          pc, call, ret, ret2>>

\* The except-branch values of the two try blocks at import.
FallbackCategories ==
    {"functional_errors", "ui_ux_issues", "performance_issues",
     "connectivity_problems", "authentication_access", "data_integrity_issues",
     "crash_stability", "integration_failures", "configuration_settings",
     "compatibility_issues", "feature_requests", "unclear_insufficient_info"}
FallbackPriorityOrder ==
    <<"functional_errors", "data_integrity_issues", "integration_failures",
      "connectivity_problems", "crash_stability", "performance_issues",
      "ui_ux_issues", "configuration_settings", "authentication_access",
      "compatibility_issues", "feature_requests">>
FallbackStructRe == <<"date", "currency", "plain_amount", "coins_word">>

Range(f) == {f[i] : i \in DOMAIN f}

\* pat.search(t) for a compiled structured-token pattern
StructPatternSearch(name, t) ==
    CASE name = "date" -> SearchDate(t, {4}, {2}, {2})
      [] name = "currency" -> SearchCurrency(t)
      [] name = "plain_amount" -> SearchPlainAmount(t)
      [] name = "coins_word" -> SearchWord(t, {"coin", "coins"})
      [] OTHER -> FALSE

structured_tokens_present(text) ==
    LET t == norm(text) IN
    IF t = "" THEN FALSE
    ELSE \E i \in DOMAIN STRUCT_RE : StructPatternSearch(STRUCT_RE[i], t)

\* _keyword_matches(text): <<matched_keywords, matched_categories>>
keyword_matches(text) ==
    LET t == norm(text)
        kwHit(i) == LET k == norm(KEYWORD_MAP[i][1]) IN k # "" /\ Contains(t, k)
        reHit(i) == SearchWord(t, REGEX_MAP[i].alts)
    IN IF t = "" THEN <<{}, {}>>
       ELSE << {KEYWORD_MAP[i][1] : i \in {j \in DOMAIN KEYWORD_MAP : kwHit(j)}}
                 \cup {"re:" \o REGEX_MAP[i].pat :
                          i \in {j \in DOMAIN REGEX_MAP : reHit(j)}},
               {KEYWORD_MAP[i][2] :
                   i \in {j \in DOMAIN KEYWORD_MAP :
                             kwHit(j) /\ KEYWORD_MAP[j][2] # ""}}
                 \cup {REGEX_MAP[i].cat :
                          i \in {j \in DOMAIN REGEX_MAP :
                                    reHit(j) /\ REGEX_MAP[j].cat # ""}} >>

RECURSIVE LevInner(_, _, _, _, _, _)
\* the inner loop over j of _levenshtein_distance: dp is updated in place
LevInner(a, b, i, j, dp, prev) ==
    IF j > Len(b) THEN dp
    ELSE LET cost == IF CharAt(a, i) = CharAt(b, j) THEN 0 ELSE 1
             v == Min(Min(dp[j + 1] + 1, dp[j] + 1), prev + cost)
         IN LevInner(a, b, i, j + 1, [dp EXCEPT ![j + 1] = v], dp[j + 1])

RECURSIVE LevOuter(_, _, _, _)
LevOuter(a, b, i, dp) ==
    IF i > Len(a) THEN dp
    ELSE LevOuter(a, b, i + 1, LevInner(a, b, i, 1, [dp EXCEPT ![1] = i], dp[1]))

\* dp[j + 1] is the source's dp[j]
levenshtein_distance(a, b) ==
    IF a = b THEN 0
    ELSE IF Len(a) = 0 THEN Len(b)
    ELSE IF Len(b) = 0 THEN Len(a)
    ELSE LevOuter(a, b, 1, [j \in 1..(Len(b) + 1) |-> j - 1])[Len(b) + 1]

RECURSIVE SplitFrom(_, _, _)
\* str.split(): the maximal runs of non-whitespace, in order
SplitFrom(t, i, cur) ==
    IF i > Len(t) THEN (IF cur = "" THEN <<>> ELSE <<cur>>)
    ELSE IF IsSpace(CharAt(t, i))
         THEN (IF cur = "" THEN <<>> ELSE <<cur>>) \o SplitFrom(t, i + 1, "")
         ELSE SplitFrom(t, i + 1, cur \o CharAt(t, i))
Split(t) == SplitFrom(t, 1, "")

Abs(x) == IF x < 0 THEN -x ELSE x

fuzzy_contains(text, token, max_dist) ==
    LET t == norm(text)
        tok == norm(token)
    IN IF t = "" \/ tok = "" THEN FALSE
       ELSE \E w \in Range(Split(t)) :
                /\ Abs(Len(w) - Len(tok)) <= max_dist
                /\ levenshtein_distance(w, tok) <= max_dist

\* A variant in which a category absent from the order sorts first.
OrderKey_absent_first(c) ==
    IF \E i \in DOMAIN PRIORITY_ORDER : PRIORITY_ORDER[i] = c
    THEN (CHOOSE i \in DOMAIN PRIORITY_ORDER : PRIORITY_ORDER[i] = c) - 1
    ELSE -1

\* the position of c in PRIORITY_ORDER (0-based; the last one if repeated)
OrderKey(c) ==
    IF \E i \in DOMAIN PRIORITY_ORDER : PRIORITY_ORDER[i] = c
    THEN (CHOOSE i \in DOMAIN PRIORITY_ORDER :
             /\ PRIORITY_ORDER[i] = c
             /\ \A j \in DOMAIN PRIORITY_ORDER : PRIORITY_ORDER[j] = c => j <= i) - 1
    ELSE 10000

\* the position of c in the sequence iter
Pos(iter, c) == CHOOSE i \in DOMAIN iter : iter[i] = c

\* _resolve_by_priority(categories): sorted() is stable, so among the categories
\* with the least key the one the set yields first wins.  A set of str iterates in
\* hash order, and str hashes are randomized per interpreter process
\* (PYTHONHASHSEED); iter is the order in which this process's set yields its
\* elements.
resolve_by_priority(categories, iter) ==
    IF categories = {} THEN None
    ELSE LET least == {c \in categories :
                          \A d \in categories : OrderKey(c) <= OrderKey(d)}
         IN CHOOSE c \in least : \A d \in least : Pos(iter, c) <= Pos(iter, d)

(***************************************************************************)
(* Usability gate                                                          *)
(***************************************************************************)
RECURSIVE JoinFrom(_, _, _)
\* sep.join(texts)
JoinFrom(texts, sep, i) ==
    IF i > Len(texts) THEN ""
    ELSE IF i = Len(texts) THEN texts[i]
    ELSE texts[i] \o sep \o JoinFrom(texts, sep, i + 1)
Join(texts, sep) == JoinFrom(texts, sep, 1)

Truthy(s) == s # None /\ s # ""
\* a or b
Or(a, b) == IF Truthy(a) THEN a ELSE b

RECURSIVE NormEach(_, _)
\* [_norm(t) for t in texts if t]
NormEach(texts, i) ==
    IF i > Len(texts) THEN <<>>
    ELSE (IF Truthy(texts[i]) THEN <<norm(texts[i])>> ELSE <<>>)
         \o NormEach(texts, i + 1)

\* the texts list both the gate and the orchestrator build: the comment if it is
\* not empty, then the normalized truthy OCR texts
CombinedTexts(comment, ocr_texts) ==
    (IF comment # "" THEN <<comment>> ELSE <<>>) \o NormEach(ocr_texts, 1)

HeaderKeywords ==
    {"date", "time", "invoice", "total", "amount", "balance", "settings", "login",
     "sign in", "signin", "password", "otp", "error", "failed", "network"}

\* the per-filename test of _has_usable_content, over f = _norm(fn)
NormalizedFilenameUsable(f) ==
    /\ f # ""
    /\ \/ \E k \in {"login", "signin", "error", "timeout", "network"} : Contains(f, k)
       \/ SearchDate(f, 1..2, 1..2, 2..4) \/ SearchDigit(f)
       \/ EndsWith(f, ".txt") \/ EndsWith(f, ".log")

FilenameUsable(fn) == NormalizedFilenameUsable(norm(fn))

\* the tests of _has_usable_content on the combined text
TextUsable(combined) ==
    \/ Len(combined) >= 10
    \/ SearchDigit(combined)
    \/ SearchDate(combined, 1..2, 1..2, 2..4)
    \/ SearchTime(combined)
    \/ \E k \in HeaderKeywords : Contains(combined, k)
    \/ SearchWord(combined, {"rs", "inr", "amount", "total", "balance"})
    \/ SearchKeyValue(combined)

\* filenames + [log_filename] if log_filename
CandidateFilenames(filenames, log_filename) ==
    filenames \o (IF Truthy(log_filename) THEN <<log_filename>> ELSE <<>>)

\* _has_usable_content(comment, ocr_texts, filenames, log_filename)
has_usable_content(comment, ocr_texts, filenames, log_filename) ==
    \/ TextUsable(Join(CombinedTexts(norm(comment), ocr_texts), " \n "))
    \/ \E fn \in Range(CandidateFilenames(filenames, log_filename)) : FilenameUsable(fn)

RECURSIVE LastIndexOf(_, _, _)
\* the last position of character c in s at or before i, 0 if none
LastIndexOf(s, c, i) ==
    IF i = 0 THEN 0 ELSE IF CharAt(s, i) = c THEN i ELSE LastIndexOf(s, c, i - 1)
RECURSIVE FirstIndexOf(_, _, _)
FirstIndexOf(s, c, i) ==
    IF i > Len(s) THEN 0 ELSE IF CharAt(s, i) = c THEN i ELSE FirstIndexOf(s, c, i + 1)

\* log_url.rsplit('/', 1)[-1].split('?', 1)[0]
LogFilenameOf(log_url) ==
    LET seg == SubSeq(log_url, LastIndexOf(log_url, "/", Len(log_url)) + 1, Len(log_url))
        q == FirstIndexOf(seg, "?", 1)
    IN IF q = 0 THEN seg ELSE SubSeq(seg, 1, q - 1)

\* A variant that prefers the raw comment to its translation.
EffectiveComment_raw_first(record) ==
    Or(record.comment, IF record.comment_translated = None THEN ""
                       ELSE record.comment_translated)

\* record.get('comment_translated') or record.get('comment', '')
EffectiveComment(record) ==
    Or(record.comment_translated, IF record.comment = None THEN "" ELSE record.comment)

\* log_url.rsplit(...) if log_url else None, over log_url = _norm(record logFile)
LogFilenameOrNone(log_url) == IF log_url # "" THEN LogFilenameOf(log_url) ELSE None

\* if mk or mc
AnyMatch(km) == km[1] # {} \/ km[2] # {}

\* the catalog and structured-token tests of allow_unclear_label
CombinedHasSignal(combined) ==
    AnyMatch(keyword_matches(combined)) \/ structured_tokens_present(combined)

\* allow_unclear_label over comment = _norm(effective comment)
UnclearAllowed(record, comment, ocr_texts, filenames) ==
    IF has_usable_content(comment, ocr_texts, filenames,
                          LogFilenameOrNone(norm(record.logFile)))
    THEN FALSE
    ELSE IF CombinedHasSignal(Join(CombinedTexts(comment, ocr_texts), " \n "))
    THEN FALSE
    ELSE TRUE

allow_unclear_label(record, ocr_texts, filenames) ==
    UnclearAllowed(record, norm(EffectiveComment(record)), ocr_texts, filenames)

(***************************************************************************)
(* Orchestrator                                                            *)
(***************************************************************************)
NoResult == <<>>

\* a if a is not None else b
IfNone(a, b) == IF a # None THEN a ELSE b

\* which = "ocr": categorize_from_ocr; which = "filename": categorize_from_filename
\* an entry that is not a str makes _norm raise inside the extractor
Extract(which, text) ==
    IF normalize_text(text) = TypeError THEN TypeError
    ELSE IF which = "ocr" THEN categorize_from_ocr(text)
    ELSE categorize_from_filename(text)

RECURSIVE LastMatch(_, _, _)
\* A variant that lets a later match overwrite an earlier one.
LastMatch(texts, which, i) ==
    IF i > Len(texts) THEN None
    ELSE IfNone(LastMatch(texts, which, i + 1), Extract(which, texts[i]))

RECURSIVE FirstMatch(_, _, _)
\* the first non-None value of the extractor over texts, in list order; None if
\* there is none
FirstMatch(texts, which, i) ==
    IF i > Len(texts) THEN None
    ELSE IfNone(Extract(which, texts[i]), FirstMatch(texts, which, i + 1))

GenericErrorTokens ==
    {"error", "fail", "failed", "not working", "does not work", "unable", "stuck",
     "cannot", "can't"}
WeakConnectivity ==
    {"no internet", "network", "server", "timeout", "api", "internet nahi",
     "server down", "net problem"}
WeakAuth ==
    {"otp", "signin", "sign in", "login", "password", "pin", "mpin", "forgot password"}
WeakIntegration ==
    {"printer", "bluetooth", "gateway", "upi", "payment", "transaction", "scan",
     "weighing scale", "barcode"}
UiTokens ==
    {"button", "screen", "page", "icon", "font", "text", "label", "alignment",
     "visible", "display", "scroll", "cut off", "overlap"}
PerfTokens ==
    {"slow", "lag", "loading", "hang", "hanging", "sluggish", "takes too long",
     "please wait", "processing"}

\* A variant that scores every stage as if no keyword had matched.
Scored_without_keywords(cat, n, st, mu, reason) ==
    <<cat, compute_confidence(0, st, FALSE, mu, cat), reason>>

\* <<category, confidence, reason>> of a stage that is not a strong rule
Scored(cat, n, st, mu, reason) ==
    <<cat, compute_confidence(n, st, FALSE, mu, cat), reason>>

\* A variant that records whether a generic error token is present, not how many.
WeakFeatures_generic_presence(combined) ==
    [number_present |-> SearchDigit(combined),
     currency_present |->
         SearchWord(combined, {"rs", "inr", "amount", "total", "balance",
                               "coin", "coins"}),
     generic_hits |->
         IF \E tok \in GenericErrorTokens : Contains(combined, tok) THEN 1 ELSE 0,
     has_structured |-> structured_tokens_present(combined),
     has_weak_conn |-> match_any(combined, WeakConnectivity),
     has_weak_auth |-> match_any(combined, WeakAuth),
     has_weak_integration |-> match_any(combined, WeakIntegration),
     ui_hits |-> Cardinality({tok \in UiTokens : Contains(combined, tok)})]

\* the flags and counts the weak-signal block computes from the combined text
WeakFeatures(combined) ==
    [number_present |-> SearchDigit(combined),
     currency_present |->
         SearchWord(combined, {"rs", "inr", "amount", "total", "balance",
                               "coin", "coins"}),
     generic_hits |->
         Cardinality({tok \in GenericErrorTokens : Contains(combined, tok)}),
     has_structured |-> structured_tokens_present(combined),
     has_weak_conn |-> match_any(combined, WeakConnectivity),
     has_weak_auth |-> match_any(combined, WeakAuth),
     has_weak_integration |-> match_any(combined, WeakIntegration),
     ui_hits |-> Cardinality({tok \in UiTokens : Contains(combined, tok)})]

\* the filename-only weak signals over fn_join, st = structured tokens in fn_join
FilenameSignals(fn_join, st) ==
    IF \E tok \in UiTokens : Contains(fn_join, tok)
    THEN Scored("ui_ux_issues", 0, st, FALSE, "weak_signal_from_filename_ui")
    ELSE IF \E tok \in WeakIntegration : Contains(fn_join, tok)
    THEN Scored("integration_failures", 0, st, FALSE,
                "weak_signal_from_filename_integration")
    ELSE IF \E tok \in WeakConnectivity : Contains(fn_join, tok)
    THEN Scored("connectivity_problems", 0, st, FALSE,
                "weak_signal_from_filename_connectivity")
    ELSE NoResult

\* A variant of the weak-signal block that tests the auth keywords before the
\* connectivity keywords.
WeakCascade_auth_first(combined, filenames, model_pred, nkw, w, fn_join) ==
    IF combined = "" THEN NoResult
    ELSE IF \/ w.number_present /\ w.currency_present
            \/ match_any(combined, {"wrong", "mismatch", "not matching", "less",
                                    "more", "only", "difference"})
    THEN Scored("data_integrity_issues", nkw, TRUE, FALSE,
                "weak_signal_data_integrity")
    ELSE IF w.generic_hits >= 2 \/ (w.generic_hits >= 1 /\ w.has_structured)
    THEN Scored("functional_errors", nkw, w.has_structured, FALSE,
                "weak_signal_generic_strong")
    ELSE IF /\ w.generic_hits = 1 /\ ~w.has_structured
            /\ Truthy(model_pred) /\ model_pred # "unclear_insufficient_info"
    THEN Scored(model_pred, nkw, w.has_structured, TRUE, "model_pred_weak_generic")
    ELSE IF /\ w.generic_hits = 1 /\ ~w.has_structured
            /\ match_any(combined, {"button", "screen", "page", "icon", "text",
                                    "label", "alignment", "visible", "display"})
    THEN Scored("ui_ux_issues", nkw, w.has_structured, FALSE,
                "weak_signal_uiux_from_generic")
    ELSE IF w.has_weak_auth
    THEN Scored("authentication_access", nkw, w.has_structured, FALSE,
                "weak_signal_auth")
    ELSE IF w.has_weak_conn
    THEN Scored("connectivity_problems", nkw, w.has_structured, FALSE,
                "weak_signal_connectivity")
    ELSE IF w.has_weak_integration
    THEN Scored("integration_failures", nkw, w.has_structured, FALSE,
                "weak_signal_integration")
    ELSE IF /\ w.ui_hits >= 1
            /\ ~(w.has_weak_auth \/ w.has_weak_conn \/ w.has_weak_integration)
            /\ w.generic_hits = 0
    THEN Scored("ui_ux_issues", nkw, w.has_structured, FALSE,
                "weak_signal_uiux_loose")
    ELSE IF /\ match_any(combined, PerfTokens)
            /\ ~match_any(combined, {"success", "completed", "done"})
    THEN Scored("performance_issues", nkw, w.has_structured, FALSE,
                "weak_signal_performance")
    ELSE IF fuzzy_contains(combined, "coins", 1)
    THEN Scored("data_integrity_issues", nkw + 1, TRUE, FALSE,
                "fuzzy_data_integrity")
    ELSE IF fuzzy_contains(combined, "quality", 1) \/ fuzzy_contains(combined, "damage", 1)
    THEN Scored("product_quality_issues", nkw + 1, w.has_structured, FALSE,
                "fuzzy_quality")
    ELSE IF Len(filenames) > 0 /\ fn_join # ""
    THEN FilenameSignals(fn_join, structured_tokens_present(fn_join))
    ELSE NoResult

\* the decisions of the weak-signal block, in the order of the source
WeakCascade(combined, filenames, model_pred, nkw, w, fn_join) ==
    IF combined = "" THEN NoResult
    ELSE IF \/ w.number_present /\ w.currency_present
            \/ match_any(combined, {"wrong", "mismatch", "not matching", "less",
                                    "more", "only", "difference"})
    THEN Scored("data_integrity_issues", nkw, TRUE, FALSE,
                "weak_signal_data_integrity")
    ELSE IF w.generic_hits >= 2 \/ (w.generic_hits >= 1 /\ w.has_structured)
    THEN Scored("functional_errors", nkw, w.has_structured, FALSE,
                "weak_signal_generic_strong")
    ELSE IF /\ w.generic_hits = 1 /\ ~w.has_structured
            /\ Truthy(model_pred) /\ model_pred # "unclear_insufficient_info"
    THEN Scored(model_pred, nkw, w.has_structured, TRUE, "model_pred_weak_generic")
    ELSE IF /\ w.generic_hits = 1 /\ ~w.has_structured
            /\ match_any(combined, {"button", "screen", "page", "icon", "text",
                                    "label", "alignment", "visible", "display"})
    THEN Scored("ui_ux_issues", nkw, w.has_structured, FALSE,
                "weak_signal_uiux_from_generic")
    ELSE IF w.has_weak_conn
    THEN Scored("connectivity_problems", nkw, w.has_structured, FALSE,
                "weak_signal_connectivity")
    ELSE IF w.has_weak_auth
    THEN Scored("authentication_access", nkw, w.has_structured, FALSE,
                "weak_signal_auth")
    ELSE IF w.has_weak_integration
    THEN Scored("integration_failures", nkw, w.has_structured, FALSE,
                "weak_signal_integration")
    ELSE IF /\ w.ui_hits >= 1
            /\ ~(w.has_weak_auth \/ w.has_weak_conn \/ w.has_weak_integration)
            /\ w.generic_hits = 0
    THEN Scored("ui_ux_issues", nkw, w.has_structured, FALSE,
                "weak_signal_uiux_loose")
    ELSE IF /\ match_any(combined, PerfTokens)
            /\ ~match_any(combined, {"success", "completed", "done"})
    THEN Scored("performance_issues", nkw, w.has_structured, FALSE,
                "weak_signal_performance")
    ELSE IF fuzzy_contains(combined, "coins", 1)
    THEN Scored("data_integrity_issues", nkw + 1, TRUE, FALSE,
                "fuzzy_data_integrity")
    ELSE IF fuzzy_contains(combined, "quality", 1) \/ fuzzy_contains(combined, "damage", 1)
    THEN Scored("product_quality_issues", nkw + 1, w.has_structured, FALSE,
                "fuzzy_quality")
    ELSE IF Len(filenames) > 0 /\ fn_join # ""
    THEN FilenameSignals(fn_join, structured_tokens_present(fn_join))
    ELSE NoResult

\* 4.5) the weak-signal block (lines 573-680); NoResult when it falls through
WeakSignals(combined, filenames, model_pred, nkw) ==
    WeakCascade(combined, filenames, model_pred, nkw, WeakFeatures(combined),
                Join(NormEach(filenames, 1), " \n "))

\* A variant whose unclear gate scores its result like the other stages do.
FinalDecision_scored_gate(record, ocr_texts, filenames, model_pred, comment, nkw) ==
    IF UnclearAllowed(record, comment, ocr_texts, filenames)
    THEN Scored("unclear_insufficient_info", nkw, structured_tokens_present(comment),
                model_pred # None, "unclear_gate")
    ELSE IF Truthy(model_pred)
    THEN Scored(model_pred, nkw, structured_tokens_present(comment), TRUE,
                "model_pred_fallback")
    ELSE Scored("functional_errors", nkw, structured_tokens_present(comment), FALSE,
                "default_fallback")

\* A variant that returns a supplied model prediction before it asks the gate.
FinalDecision_model_first(record, ocr_texts, filenames, model_pred, comment, nkw) ==
    IF Truthy(model_pred)
    THEN Scored(model_pred, nkw, structured_tokens_present(comment), TRUE,
                "model_pred_fallback")
    ELSE IF UnclearAllowed(record, comment, ocr_texts, filenames)
    THEN <<"unclear_insufficient_info", 30, "unclear_gate">>
    ELSE Scored("functional_errors", nkw, structured_tokens_present(comment), FALSE,
                "default_fallback")

\* 5) and after (lines 687-699): the unclear gate and the fallbacks
FinalDecision(record, ocr_texts, filenames, model_pred, comment, nkw) ==
    IF UnclearAllowed(record, comment, ocr_texts, filenames)
    THEN <<"unclear_insufficient_info", 30, "unclear_gate">>
    ELSE IF Truthy(model_pred)
    THEN Scored(model_pred, nkw, structured_tokens_present(comment), TRUE,
                "model_pred_fallback")
    ELSE Scored("functional_errors", nkw, structured_tokens_present(comment), FALSE,
                "default_fallback")

\* the first of two stage results that decided
FirstResult(a, b) == IF a # NoResult THEN a ELSE b

\* the result of a strong stage whose extractor returned c
Strong(c, reason) ==
    IF c = TypeError THEN Raise(TypeError)
    ELSE IF c # None
    THEN <<c, compute_confidence(0, FALSE, TRUE, FALSE, c), reason>>
    ELSE NoResult

\* A variant of the strong stages that looks at the OCR texts before the comment.
StrongRules_ocr_first(comment, ocr_texts, filenames) ==
    FirstResult(Strong(FirstMatch(ocr_texts, "ocr", 1), "strong_ocr_regex"),
    FirstResult(Strong(categorize_from_comment(comment), "strong_comment_regex"),
                Strong(FirstMatch(filenames, "filename", 1), "filename_rule")))

\* 1) 2) 3) (lines 519-542): comment, then each OCR text, then each filename
StrongRules(comment, ocr_texts, filenames) ==
    FirstResult(Strong(categorize_from_comment(comment), "strong_comment_regex"),
    FirstResult(Strong(FirstMatch(ocr_texts, "ocr", 1), "strong_ocr_regex"),
                Strong(FirstMatch(filenames, "filename", 1), "filename_rule")))

\* resolved if resolved else 'functional_errors'
ResolvedOrDefault(resolved) == IF Truthy(resolved) THEN resolved ELSE "functional_errors"

\* the result of the catalog stage for the category final
CatalogResult(combined, km, final) ==
    Scored(final, Cardinality(km[1]), structured_tokens_present(combined), FALSE,
           IF \E k \in km[1] : Len(k) >= 3 /\ SubSeq(k, 1, 3) = "re:"
           THEN "regex_map" ELSE "keyword_map")

\* 3.5) (lines 544-556): the keyword/regex catalog over the combined text
CatalogRules(combined, km, iter) ==
    IF km[2] # {}
    THEN CatalogResult(combined, km, ResolvedOrDefault(resolve_by_priority(km[2], iter)))
    ELSE NoResult

\* A variant whose connectivity signal also fires on the word server.
ExplicitSignals_with_server(comment) ==
    [explicit_crash |->
         match_any(comment, {"crash", "force close", "stopped working"}),
     explicit_connectivity |->
         match_any(comment, {"unable to connect", "network error",
                             "api failed", "timeout", "server"}),
     explicit_auth |->
         match_any(comment, {"login", "sign in", "password", "otp"})]

\* the signals dict handed to post_adjustment
ExplicitSignals(comment) ==
    [explicit_crash |->
         match_any(comment, {"crash", "force close", "stopped working"}),
     explicit_connectivity |->
         match_any(comment, {"unable to connect", "network error",
                             "api failed", "timeout"}),
     explicit_auth |->
         match_any(comment, {"login", "sign in", "password", "otp"})]

\* A variant that returns an unclear adjusted prediction like any other.
AdjustedResult_unclear_returns(comment, model_pred, signals, adjusted) ==
    IF Truthy(adjusted)
    THEN Scored(adjusted, 0, structured_tokens_present(comment), model_pred # None,
                IF signals.explicit_crash \/ signals.explicit_connectivity
                   \/ signals.explicit_auth
                THEN "post_adjustment" ELSE "model_pred")
    ELSE NoResult

\* the result of the post-adjustment stage for the adjusted prediction
AdjustedResult(comment, model_pred, signals, adjusted) ==
    IF Truthy(adjusted) /\ adjusted # "unclear_insufficient_info"
    THEN Scored(adjusted, 0, structured_tokens_present(comment), model_pred # None,
                IF signals.explicit_crash \/ signals.explicit_connectivity
                   \/ signals.explicit_auth
                THEN "post_adjustment" ELSE "model_pred")
    ELSE NoResult

\* post_adjustment applied to the signals, then scored
AdjustWith(comment, model_pred, signals) ==
    AdjustedResult(comment, model_pred, signals, post_adjustment(model_pred, signals))

\* 4) (lines 558-571): post-adjustment of the model prediction
PostAdjustment(comment, model_pred) ==
    AdjustWith(comment, model_pred, ExplicitSignals(comment))

\* 4.8) (lines 682-685): a model prediction other than unclear
ModelPrediction(comment, model_pred, nkw) ==
    IF Truthy(model_pred) /\ model_pred # "unclear_insufficient_info"
    THEN Scored(model_pred, nkw, structured_tokens_present(comment), TRUE, "model_pred")
    ELSE NoResult

\* the stages after the catalog lookup, km = _keyword_matches(combined)
AfterCatalog(record, ocr_texts, filenames, model_pred, comment, combined, nkw) ==
    FirstResult(PostAdjustment(comment, model_pred),
    FirstResult(WeakSignals(combined, filenames, model_pred, nkw),
    FirstResult(ModelPrediction(comment, model_pred, nkw),
                FinalDecision(record, ocr_texts, filenames, model_pred, comment, nkw))))

\* the catalog stage and what follows it
FromCatalog(record, ocr_texts, filenames, model_pred, iter, comment, combined, km) ==
    FirstResult(CatalogRules(combined, km, iter),
                AfterCatalog(record, ocr_texts, filenames, model_pred, comment,
                             combined, Cardinality(km[1])))

\* the stages after the strong rules, combined = the joined texts
AfterStrong(record, ocr_texts, filenames, model_pred, iter, comment, combined) ==
    FromCatalog(record, ocr_texts, filenames, model_pred, iter, comment, combined,
                keyword_matches(combined))

\* the cascade over comment = _norm(effective comment)
Cascade(record, ocr_texts, filenames, model_pred, iter, comment) ==
    FirstResult(StrongRules(comment, ocr_texts, filenames),
                AfterStrong(record, ocr_texts, filenames, model_pred, iter, comment,
                            Join(CombinedTexts(comment, ocr_texts), " \n ")))

\* categorize_record_with_meta(record, ocr_texts, filenames, model_pred) in an
\* interpreter process whose sets of matched categories iterate in the order iter:
\* <<category, confidence, reason>>
categorize_record_with_meta(record, ocr_texts, filenames, model_pred, iter) ==
    Cascade(record, ocr_texts, filenames, model_pred, iter,
            norm(EffectiveComment(record)))

\* categorize_record: the category only
categorize_record(record, ocr_texts, filenames, model_pred, iter) ==
    categorize_record_with_meta(record, ocr_texts, filenames, model_pred, iter)[1]

(***************************************************************************)
(* Inputs                                                                  *)
(***************************************************************************)
MaxItems == 2      \* most OCR texts and filenames, together, in one call
MaxKeywords == 6   \* largest matched-keyword count passed to the scorer

Rec(c, t, l) == [comment |-> c, comment_translated |-> t, logFile |-> l]

Records ==
    {Rec("", None, None), Rec(None, None, "http://h/app.log"),
     Rec("Feature request: add scanner", None, None),
     Rec("slow", None, None), Rec("Total: 120", None, None),
     Rec("bad quality", None, None), Rec("hello", None, None),
     Rec("refund tax", None, None), Rec("coinz", None, None),
     Rec("namaste", "Login fails", None), Rec("crash", "", None),
     Rec("refund gst", None, None), Rec("gst vat", None, None)}

\* the comment a second report carries in place of the first report's
OtherComments == {"slow", "hello", ""}

\* reports whose comment is empty, None or absent, and one with a comment
SparseRecords == {Rec("", None, None), Rec(None, None, None), Rec("slow", None, None)}
\* OCR lists with a missing entry
SparseOcr == {<<>>, <<None>>, <<None, "Loading">>}
\* filenames lists with a missing entry or an entry that is not a str
MalformedFiles ==
    {<<>>, <<NonStr>>, <<"login.png", NonStr>>, <<NonStr, "login.png">>,
     <<None, "image.jpg">>}

\* strings handed to _normalize_text
TextPool ==
    {None, "", "  Hello,  World! ", "A.B", "$ 50%", "x\t\ny", "...", "Total: 120",
     "a_b-C", " \n "}

OcrPool == {"12345", "Loading", "Unable to connect"}
FilePool == {"image.jpg", "login.png", "crash.log", "Screenshot_error_login.png"}
\* filenames for direct calls of the filename extractor
FilenamePool ==
    FilePool \cup {"Screenshot_error.jpg", "Screenshot_timeout_network.jpg",
                   "network.log", "login.txt", "network_login.jpg", "signin.jpg"}
ModelPreds == {None, "ui_ux_issues", "unclear_insufficient_info"}

RECURSIVE ListsUpTo(_, _)
\* the lists over pool of length at most n
ListsUpTo(pool, n) ==
    IF n = 0 THEN {<<>>}
    ELSE LET shorter == ListsUpTo(pool, n - 1)
         IN shorter \cup {Append(l, x) : l \in shorter, x \in pool}

\* the <<ocr_texts, filenames>> pairs of a call
Attachments ==
    {p \in ListsUpTo(OcrPool, MaxItems) \X ListsUpTo(FilePool, MaxItems) :
        Len(p[1]) + Len(p[2]) <= MaxItems}

\* the orders in which a set S can yield its elements
SetOrders(S) ==
    {p \in [1..Cardinality(S) -> S] : \A i, j \in DOMAIN p : p[i] = p[j] => i = j}

\* the attachments of a call without filenames
OcrOnly == {a \in Attachments : a[2] = <<>>}

\* the values of f at a and at b
PairOf(f, a, b) == <<f[a], f[b]>>

MatchedCategories(record, ocr_texts) ==
    keyword_matches(Join(CombinedTexts(norm(EffectiveComment(record)), ocr_texts),
                         " \n "))[2]

\* rules.json as loaded, for the catalogs considered besides the fallback
LoadedKeywordMap ==
    <<<<"refund", "billing_issues">>, <<"tax", "product_quality_issues">>,
      <<"gst", "ui_ux_issues">>, <<"re:fund", "billing_issues">>>>
LoadedRegexMap ==
    <<[pat |-> "\\b(vat|cess)\\b", alts |-> {"vat", "cess"}, cat |-> "crash_stability"]>>

Init ==
    /\ \/ /\ CANONICAL_CATEGORIES = FallbackCategories
          /\ PRIORITY_ORDER = FallbackPriorityOrder
          /\ KEYWORD_MAP = <<>>
          /\ REGEX_MAP = <<>>
          /\ STRUCT_RE = FallbackStructRe
       \/ /\ CANONICAL_CATEGORIES = FallbackCategories \cup {"product_quality_issues"}
          /\ PRIORITY_ORDER = FallbackPriorityOrder
          /\ KEYWORD_MAP = LoadedKeywordMap
          /\ REGEX_MAP = LoadedRegexMap
          /\ STRUCT_RE = FallbackStructRe
    /\ pc = "idle"
    /\ call = [op |-> "none"]
    /\ ret = NoResult
    /\ ret2 = NoResult

(***************************************************************************)
(* Calls of the module's functions                                         *)
(***************************************************************************)
\* A variant in which _has_usable_content appends the log filename to the
\* caller's filenames list instead of to a copy of it.
ArgsAfter_aliased(record, ocr_texts, filenames) ==
    <<record, ocr_texts,
      CandidateFilenames(filenames, LogFilenameOrNone(norm(record.logFile)))>>

\* the caller's record, ocr_texts and filenames objects after a call: the engine
\* reads them and writes only to lists and sets of its own (texts,
\* combined_texts, the copy candidate_filenames, the matched sets, dp)
ArgsAfter(record, ocr_texts, filenames) == <<record, ocr_texts, filenames>>

\* order is the iteration order of the calling process's sets, order2 that of
\* the process that makes the call again
CallCategorizeRecordWithMeta ==
    /\ pc = "idle"
    /\ \E r \in Records, a \in Attachments, m \in ModelPreds :
          \E iter \in SetOrders(MatchedCategories(r, a[1])) :
              /\ call' = [op |-> "categorize_record_with_meta", record |-> r,
                          ocr_texts |-> a[1], filenames |-> a[2], model_pred |-> m,
                          after |-> ArgsAfter(r, a[1], a[2]),
                          order |-> iter, order2 |-> <<>>]
              /\ ret' = categorize_record_with_meta(r, a[1], a[2], m, iter)
    /\ pc' = "returned"
    /\ UNCHANGED <<catalog, ret2>>

\* the same call once more on the same argument objects, in the same or in
\* another interpreter process
CallAgain ==
    /\ pc = "returned"
    /\ call.op = "categorize_record_with_meta"
    /\ \E iter \in SetOrders(MatchedCategories(call.after[1], call.after[2])) :
          /\ ret2' = categorize_record_with_meta(call.after[1], call.after[2],
                                                 call.after[3], call.model_pred, iter)
          /\ call' = [call EXCEPT !.order2 = iter]
    /\ pc' = "again"
    /\ UNCHANGED <<catalog, ret>>

CallAllowUnclearLabel ==
    /\ pc = "idle"
    /\ \E r \in Records, a \in Attachments :
          /\ call' = [op |-> "allow_unclear_label", record |-> r,
                      ocr_texts |-> a[1], filenames |-> a[2]]
          /\ ret' = allow_unclear_label(r, a[1], a[2])
    /\ pc' = "returned"
    /\ UNCHANGED <<catalog, ret2>>

CallHasUsableContent ==
    /\ pc = "idle"
    /\ \E c \in {"", "hello", "Total: 120"}, a \in Attachments,
          l \in {None, "app.log"} :
          /\ call' = [op |-> "has_usable_content", comment |-> c,
                      ocr_texts |-> a[1], filenames |-> a[2], log_filename |-> l]
          /\ ret' = has_usable_content(c, a[1], a[2], l)
    /\ pc' = "returned"
    /\ UNCHANGED <<catalog, ret2>>

CallCategorizeFromFilename ==
    /\ pc = "idle"
    /\ \E fn \in FilenamePool :
          /\ call' = [op |-> "categorize_from_filename", filename |-> fn]
          /\ ret' = categorize_from_filename(fn)
    /\ pc' = "returned"
    /\ UNCHANGED <<catalog, ret2>>

CallComputeConfidence ==
    /\ pc = "idle"
    /\ \E n \in 0..MaxKeywords, st \in BOOLEAN, sr \in BOOLEAN, mu \in BOOLEAN :
          /\ call' = [op |-> "compute_confidence", matched_keywords |-> n,
                      structured_present |-> st, strong_rule |-> sr, model_used |-> mu]
          /\ ret' = compute_confidence(n, st, sr, mu, "functional_errors")
    /\ pc' = "returned"
    /\ UNCHANGED <<catalog, ret2>>

\* the two results of a paired call
ReturnPair(p) == ret' = p[1] /\ ret2' = p[2]

\* two reports that differ in their comment field only, categorized in one
\* interpreter process: ret is the result for record, ret2 the result for the
\* report with other_comment in its place
CallWithOtherComment ==
    /\ pc = "idle"
    /\ \E r \in Records, c \in OtherComments, a \in OcrOnly, m \in ModelPreds :
          \E iter \in SetOrders(MatchedCategories(r, a[1])
                                   \cup MatchedCategories([r EXCEPT !.comment = c], a[1])) :
              /\ call' = [op |-> "categorize_pair", record |-> r, other_comment |-> c,
                          ocr_texts |-> a[1], filenames |-> a[2], model_pred |-> m]
              /\ ReturnPair(PairOf([x \in {r.comment, c} |->
                                        categorize_record_with_meta(
                                            [r EXCEPT !.comment = x], a[1], a[2], m,
                                            iter)],
                                    r.comment, c))
    /\ pc' = "returned"
    /\ UNCHANGED catalog

\* a call with missing or wrongly typed entries in its fields
CallWithMalformedFields ==
    /\ pc = "idle"
    /\ \E r \in SparseRecords, o \in SparseOcr, f \in MalformedFiles :
          \E iter \in SetOrders(MatchedCategories(r, o)) :
              /\ call' = [op |-> "categorize_malformed", record |-> r,
                          ocr_texts |-> o, filenames |-> f, model_pred |-> None]
              /\ ret' = categorize_record_with_meta(r, o, f, None, iter)
    /\ pc' = "returned"
    /\ UNCHANGED <<catalog, ret2>>

\* the predictions and signals handed to post_adjustment
AdjustPreds == ModelPreds \cup {"performance_issues", "crash_stability"}
SignalSets ==
    [explicit_crash : BOOLEAN, explicit_connectivity : BOOLEAN, explicit_auth : BOOLEAN]

CallPostAdjustment ==
    /\ pc = "idle"
    /\ \E m \in AdjustPreds, sig \in SignalSets :
          /\ call' = [op |-> "post_adjustment", model_pred |-> m, signals |-> sig]
          /\ ret' = post_adjustment(m, sig)
    /\ pc' = "returned"
    /\ UNCHANGED <<catalog, ret2>>

CallNormalizeText ==
    /\ pc = "idle"
    /\ \E s \in TextPool :
          /\ call' = [op |-> "normalize_text", s |-> s]
          /\ ret' = normalize_text(s)
    /\ pc' = "returned"
    /\ UNCHANGED <<catalog, ret2>>

\* _normalize_text applied to its own result
NormalizeAgain ==
    /\ pc = "returned"
    /\ call.op = "normalize_text"
    /\ ret2' = normalize_text(ret)
    /\ pc' = "again"
    /\ UNCHANGED <<catalog, call, ret>>

\* comments that no strong rule and no catalog entry decides, alone and in pairs
\* of weak signals
WeakComments ==
    {"", "hello", "server wrong", "server signin", "signin barcode",
     "barcode button", "button hang", "hang coinz", "coinz qualty", "qualty",
     "stuck", "stuck page", "stuck scroll", "stuck api", "error failed",
     "only server", "rs 50 api", "re fund"}
WeakRecords == {Rec(c, None, None) : c \in WeakComments}
\* OCR lists whose text no strong OCR rule decides
WeakOcr == {<<>>, <<"server">>, <<"12345">>}
\* filenames lists that no strong filename rule decides
WeakFiles == {<<>>, <<"payment.png">>, <<"button_api.png">>, <<"server.png">>}

\* a call whose texts carry weak signals only
CallWithWeakSignals ==
    /\ pc = "idle"
    /\ \E r \in WeakRecords, o \in WeakOcr, f \in WeakFiles, m \in ModelPreds :
          \E iter \in SetOrders(MatchedCategories(r, o)) :
              /\ call' = [op |-> "categorize_weak", record |-> r,
                          ocr_texts |-> o, filenames |-> f, model_pred |-> m]
              /\ ret' = categorize_record_with_meta(r, o, f, m, iter)
    /\ pc' = "returned"
    /\ UNCHANGED <<catalog, ret2>>

\* comments for direct calls of the comment extractor: one or two groups each
CommentPool ==
    {None, "", "hello", "Slow network", "amount slow", "app not open, timeout",
     "stop notifications (quality)", "rate card damaged", "feature: login",
     "server error login", "password freeze", "freeze crash", "crash printer",
     "printer settings", "settings duplicate", "duplicate overlap",
     "overlap broken", "broken tablet", "tablet", "only 5", "shopping",
     "Net problem!", "damaged feature", "Login fails after OTP. Access denied",
     "Settings not saved, default value wrong",
     "Text is cut off and alignment is broken"}

CallCategorizeFromComment ==
    /\ pc = "idle"
    /\ \E c \in CommentPool :
          /\ call' = [op |-> "categorize_from_comment", comment |-> c]
          /\ ret' = categorize_from_comment(c)
    /\ pc' = "returned"
    /\ UNCHANGED <<catalog, ret2>>

(***************************************************************************)
(* The pipeline passes: run_full_pipeline.py                               *)
(***************************************************************************)
\* detect_and_translate(text): <<translated_text_or_None, detected_lang_or_None>>,
\* over a deterministic detector and translator that know one comment in Hindi
\* and take every other text for English
detect_and_translate(text) ==
    LET input_text == Strip(IF text = None THEN "" ELSE text) IN
    IF input_text = "" THEN <<None, None>>
    ELSE IF input_text = "namaste" THEN <<"Login fails", "hi">>
    ELSE <<None, "en">>

\* DownloaderOCR.extract_filename_from_url(url), for a URL without percent escapes
extract_filename_from_url(url) ==
    LET q == FirstIndexOf(url, "?", 1)
        s == FirstIndexOf(url, "/", FirstIndexOf(url, "/", 1) + 2)
        \* urlparse(url).path of an http URL without fragment: the text from the
        \* third slash up to the query
        path == IF s = 0 THEN ""
                ELSE SubSeq(url, s, IF q = 0 THEN Len(url) ELSE q - 1)
        decoded == SubSeq(path, LastIndexOf(path, "/", Len(path)) + 1, Len(path))
    IN IF decoded = "" \/ Len(decoded) < 3
       THEN \* hashlib.md5(url.encode()).hexdigest()[:8]
            "image_" \o (CASE url = "http://h/a" -> "2ce72765") \o ".jpg"
       ELSE decoded

RECURSIVE FirstPassOcr(_, _)
\* the OCR texts first_pass collects: one per attachment that downloaded
FirstPassOcr(atts, i) ==
    IF i > Len(atts) THEN <<>>
    ELSE (IF atts[i].ocr = None THEN <<>> ELSE <<atts[i].ocr>>)
         \o FirstPassOcr(atts, i + 1)

\* effective_record: the record with its comment replaced by the translation
EffectiveRecord(record, tr) ==
    IF Truthy(tr[1]) THEN [record EXCEPT !.comment = tr[1]] ELSE record

\* if detected_lang and detected_lang != 'en' and translated_comment
ForeignTranslated(tr) == tr[2] # None /\ tr[2] # "en" /\ Truthy(tr[1])

\* updated: the record first_pass stores for the engine's result res
FirstPassRecord(record, atts, tr, ocr_texts, res) ==
    [comment |-> record.comment,
     comment_translated |-> IF ForeignTranslated(tr) THEN tr[1]
                            ELSE record.comment_translated,
     detected_lang |-> IF ForeignTranslated(tr) THEN tr[2] ELSE None,
     logFile |-> record.logFile,
     attachments |-> [i \in DOMAIN atts |-> atts[i].url],
     category |-> res[1],
     label_confidence |-> res[2],
     label_reason |-> res[3],
     \* "\n\n".join([t for t in ocr_texts if t]) if any(ocr_texts) else ""
     extracted_text |-> Join(SelectSeq(ocr_texts, LAMBDA t : t # ""), "\n\n")]

\* the filenames, one per attachment, downloaded or not, go to the engine with
\* the effective record
FirstPassStore(record, atts, tr, ocr_texts, model_pred, iter) ==
    FirstPassRecord(record, atts, tr, ocr_texts,
                    categorize_record_with_meta(EffectiveRecord(record, tr), ocr_texts,
                                                [i \in DOMAIN atts |->
                                                    extract_filename_from_url(atts[i].url)],
                                                model_pred, iter))

\* first_pass for one record whose attachments atts are [url, ocr] (ocr is None
\* when the download fails), with model_pred the predictor's output (None without
\* a predictor): the stored record
first_pass(record, atts, model_pred, iter) ==
    FirstPassStore(record, atts, detect_and_translate(Or(record.comment, "")),
                   FirstPassOcr(atts, 1), model_pred, iter)

\* _collect_ocr_texts_from_record(rec), extracted_text being a str
collect_ocr_texts_from_record(rec) ==
    IF rec.extracted_text # "" THEN <<rec.extracted_text>> ELSE <<>>

\* _collect_filenames_from_record(rec)
collect_filenames_from_record(rec) ==
    [i \in DOMAIN rec.attachments |-> LogFilenameOf(rec.attachments[i])]

\* rec after rec['comment_translated'] = translated_comment
WithTranslation(rec, tr) ==
    IF Truthy(tr[1]) THEN [rec EXCEPT !.comment_translated = tr[1]] ELSE rec

\* rec after the three assignments of a relabel pass for the engine's result res
RelabelRecord(rec, tr, res) ==
    [rec EXCEPT !.category = res[1],
                !.label_confidence = Max(rec.label_confidence, res[2]),
                !.label_reason = res[3],
                !.detected_lang = IF ForeignTranslated(tr) THEN tr[2] ELSE @]

\* the engine's result for a stored record in a relabel pass
RelabelResult(rec, model_pred, iter) ==
    categorize_record_with_meta(rec, collect_ocr_texts_from_record(rec),
                                collect_filenames_from_record(rec), model_pred, iter)

RelabelWith(rec, tr, model_pred, iter) ==
    RelabelRecord(WithTranslation(rec, tr), tr,
                  RelabelResult(WithTranslation(rec, tr), model_pred, iter))

\* relabel_in_memory for one stored record: the record after the pass
relabel_in_memory(rec, model_pred, iter) ==
    RelabelWith(rec, detect_and_translate(Or(rec.comment, "")), model_pred, iter)

\* attachments of the records put through the pipeline: [url, ocr]
PipelineAttachments ==
    {[url |-> "http://h/image.jpg", ocr |-> "Loading"],
     [url |-> "http://h/shot.png?x=1", ocr |-> "Unable to connect"],
     [url |-> "http://h/login.png", ocr |-> None],
     [url |-> "http://h/a", ocr |-> None]}
PipelineComments == {"", "hello", "namaste", "refund tax"}
\* what the predictor returns in a pass; None when there is no predictor
PipelinePreds == {None, "ui_ux_issues"}

\* first_pass over one record
FirstPass ==
    /\ pc = "idle"
    /\ \E c \in PipelineComments, atts \in ListsUpTo(PipelineAttachments, MaxItems),
          m \in PipelinePreds :
          \E iter \in SetOrders(MatchedCategories(
                                  EffectiveRecord(Rec(c, None, None),
                                                  detect_and_translate(c)),
                                  FirstPassOcr(atts, 1))) :
              /\ call' = [op |-> "first_pass", record |-> Rec(c, None, None),
                          attachments |-> atts, pass |-> "first_pass",
                          prev_pred |-> m, model_pred |-> m,
                          prev_order |-> iter, order |-> iter]
              /\ ret' = first_pass(Rec(c, None, None), atts, m, iter)
    /\ pc' = "stored"
    /\ UNCHANGED <<catalog, ret2>>

\* the record as stored by the pass before this one
StoredRecord == IF pc = "stored" THEN ret ELSE ret2

\* a relabel pass over the stored record, in the process of the pass before it or
\* in a new one: ret keeps the record as it was, ret2 is the record after the pass
RelabelInMemory ==
    /\ pc \in {"stored", "relabeled"}
    /\ \E m \in PipelinePreds :
          \E iter \in SetOrders(MatchedCategories(
                                  WithTranslation(
                                      StoredRecord,
                                      detect_and_translate(Or(StoredRecord.comment, ""))),
                                  collect_ocr_texts_from_record(StoredRecord))) :
              /\ call' = [call EXCEPT !.pass = IF pc = "stored" THEN "first_relabel"
                                                ELSE "later_relabel",
                                      !.prev_pred = call.model_pred,
                                      !.model_pred = m,
                                      !.prev_order = call.order,
                                      !.order = iter]
              /\ ret2' = relabel_in_memory(StoredRecord, m, iter)
    /\ ret' = StoredRecord
    /\ pc' = "relabeled"
    /\ UNCHANGED catalog

Next ==
    \/ CallCategorizeRecordWithMeta
    \/ CallAgain
    \/ CallAllowUnclearLabel
    \/ CallHasUsableContent
    \/ CallCategorizeFromFilename
    \/ CallComputeConfidence
    \/ CallWithOtherComment
    \/ CallPostAdjustment
    \/ CallWithMalformedFields
    \/ CallNormalizeText
    \/ NormalizeAgain
    \/ CallWithWeakSignals
    \/ CallCategorizeFromComment
    \/ FirstPass
    \/ RelabelInMemory

Spec == Init /\ [][Next]_vars

(***************************************************************************)
(* Properties                                                              *)
(***************************************************************************)
Categorized == pc # "idle" /\ call.op = "categorize_record_with_meta"
Returned(op) == pc = "returned" /\ call.op = op
\* the results of categorize_record_with_meta the state holds
Results == IF ~Categorized THEN {} ELSE IF pc = "again" THEN {ret, ret2} ELSE {ret}

CommentCategory == categorize_from_comment(EffectiveComment(call.record))
OcrMatches(i) == categorize_from_ocr(call.ocr_texts[i]) # None
FilenameMatches(i) == categorize_from_filename(call.filenames[i]) # None
StrongReasons == {"strong_comment_regex", "strong_ocr_regex", "filename_rule"}
LogFilenameOfRecord(record) == LogFilenameOrNone(norm(record.logFile))
EndsInTxtOrLog(fn) == EndsWith(fn, ".txt") \/ EndsWith(fn, ".log")

\* C1: every category categorize_record_with_meta returns, on every return path,
\* is a member of the loaded canonical category enumeration.
C1_CategoryInEnumeration ==
    \A res \in Results : res[1] \in CANONICAL_CATEGORIES

\* C2: a report for which _has_usable_content holds is never categorized as
\* unclear_insufficient_info, whatever model_pred is (None, a category, or unclear).
C2_NoUnclearWithUsableContent ==
    Categorized
    /\ has_usable_content(norm(EffectiveComment(call.record)), call.ocr_texts,
                          call.filenames, LogFilenameOfRecord(call.record))
    => \A res \in Results : res[1] # "unclear_insufficient_info"

\* C3: whenever categorize_from_comment returns a category for the effective
\* comment, the result is that category with reason strong_comment_regex, for
\* every ocr_texts, filenames and model_pred.
C3_CommentPrecedence ==
    Categorized /\ CommentCategory # None
    => \A res \in Results :
           res[1] = CommentCategory /\ res[3] = "strong_comment_regex"

\* C3 witness: the comment has a strong match while an OCR text and a filename
\* match other categories and a model prediction is supplied.
C3_Witness ==
    /\ Categorized /\ CommentCategory # None
    /\ \E i \in DOMAIN call.ocr_texts :
           OcrMatches(i) /\ categorize_from_ocr(call.ocr_texts[i]) # CommentCategory
    /\ \E i \in DOMAIN call.filenames :
           FilenameMatches(i)
           /\ categorize_from_filename(call.filenames[i]) # CommentCategory
    /\ call.model_pred # None
    /\ ret[3] = "strong_comment_regex"

\* C4: with no strong comment match, the result is the category of the first OCR
\* text (in list order) that categorize_from_ocr matches, reason strong_ocr_regex,
\* whatever the filenames and model_pred; only when no OCR text matches is it the
\* category of the first filename that categorize_from_filename matches, reason
\* filename_rule.
C4_CascadeOrder ==
    Categorized /\ CommentCategory = None
    => \A res \in Results :
           /\ \A i \in DOMAIN call.ocr_texts :
                  OcrMatches(i) /\ (\A j \in 1..(i - 1) : ~OcrMatches(j))
                  => /\ res[1] = categorize_from_ocr(call.ocr_texts[i])
                     /\ res[3] = "strong_ocr_regex"
           /\ \A i \in DOMAIN call.filenames :
                  /\ \A j \in DOMAIN call.ocr_texts : ~OcrMatches(j)
                  /\ FilenameMatches(i) /\ (\A j \in 1..(i - 1) : ~FilenameMatches(j))
                  => /\ res[1] = categorize_from_filename(call.filenames[i])
                     /\ res[3] = "filename_rule"
           /\ res[3] = "filename_rule"
              => \A j \in DOMAIN call.ocr_texts : ~OcrMatches(j)

\* C4 witness: no strong comment match, two OCR texts that match different
\* categories, and the first one decided.
C4_Witness ==
    /\ Categorized /\ CommentCategory = None
    /\ Len(call.ocr_texts) = 2 /\ OcrMatches(1) /\ OcrMatches(2)
    /\ categorize_from_ocr(call.ocr_texts[1]) # categorize_from_ocr(call.ocr_texts[2])
    /\ call.model_pred # None
    /\ ret[1] = categorize_from_ocr(call.ocr_texts[1])
    /\ ret[3] = "strong_ocr_regex"

\* C5: two invocations of categorize_record_with_meta with identical arguments
\* and the same loaded catalog return identical (category, confidence, reason).
C5_Determinism == pc = "again" => ret2 = ret

\* C6: every confidence categorize_record_with_meta returns, and every value of
\* _compute_confidence for a keyword count >= 0 and any flags, is in [0.0, 0.99].
C6_ConfidenceBounds ==
    /\ \A res \in Results : res[2] >= 0 /\ res[2] <= 99
    /\ Returned("compute_confidence") => ret >= 0 /\ ret <= 99

\* C6 witness: the scorer was called with enough keywords to reach its cap.
C6_Witness ==
    /\ Returned("compute_confidence")
    /\ call.matched_keywords >= 6 /\ call.structured_present /\ call.model_used
    /\ ret = 90

\* C7: a result with a strong-rule reason has confidence >= 0.7; a result with
\* reason unclear_gate is unclear_insufficient_info with confidence exactly 0.3.
C7_ConfidenceMonotonicity ==
    \A res \in Results :
        /\ res[3] \in StrongReasons => res[2] >= 70
        /\ res[3] = "unclear_gate"
           => res[1] = "unclear_insufficient_info" /\ res[2] = 30

\* C7 witness: the unclear gate decided although the model itself predicted unclear.
C7_Witness ==
    /\ Categorized /\ ret[3] = "unclear_gate"
    /\ call.model_pred = "unclear_insufficient_info"

\* C8: categorize_from_filename returns None for every filename that ends in
\* .txt or .log, indicative substrings or not.
C8_LogFileNeutrality ==
    Returned("categorize_from_filename") /\ EndsInTxtOrLog(call.filename)
    => ret = None

\* C9: with an empty comment and no OCR text, _has_usable_content is true as
\* soon as some filename ends in .txt or .log.
C9_LogAttachmentUsable ==
    /\ Returned("has_usable_content")
    /\ call.comment = "" /\ call.ocr_texts = <<>>
    /\ \E i \in DOMAIN call.filenames : EndsInTxtOrLog(call.filenames[i])
    => ret = TRUE

\* C10: allow_unclear_label is False whenever a strong extractor returns a
\* category for the comment, an OCR text or a filename, or the keyword/regex
\* catalog or a structured-token pattern matches the combined text.
C10_UnclearOnlyWithoutSignal ==
    LET combined == Join(CombinedTexts(norm(EffectiveComment(call.record)),
                                       call.ocr_texts), " \n ")
    IN /\ Returned("allow_unclear_label")
       /\ \/ CommentCategory # None
          \/ \E i \in DOMAIN call.ocr_texts : OcrMatches(i)
          \/ \E i \in DOMAIN call.filenames : FilenameMatches(i)
          \/ keyword_matches(combined)[1] # {}
          \/ structured_tokens_present(combined)
       => ret = FALSE

\* C11: two reports that differ only in their comment and share a non-empty
\* comment_translated get the same (category, confidence, reason); with
\* comment_translated absent or empty the raw comment decides: a raw comment with
\* a strong match yields that category with reason strong_comment_regex.
C11_TranslationPrecedence ==
    Returned("categorize_pair")
    => /\ Truthy(call.record.comment_translated) => ret2 = ret
       /\ /\ ~Truthy(call.record.comment_translated)
          /\ categorize_from_comment(call.other_comment) # None
          => /\ ret2[1] = categorize_from_comment(call.other_comment)
             /\ ret2[3] = "strong_comment_regex"

\* C11 witness: a translated report whose translation decided, paired with a
\* report whose raw comment alone would match another category.
C11_Witness ==
    /\ Returned("categorize_pair")
    /\ Truthy(call.record.comment_translated)
    /\ call.other_comment # call.record.comment
    /\ categorize_from_comment(call.other_comment) # None
    /\ categorize_from_comment(call.other_comment) # ret[1]
    /\ ret[3] = "strong_comment_regex"

\* C12: _normalize_text(_normalize_text(s)) = _normalize_text(s) for every s, and
\* an empty or missing s normalizes to the empty string.
C12_NormalizationIdempotent ==
    /\ pc = "again" /\ call.op = "normalize_text" => ret2 = ret
    /\ pc # "idle" /\ call.op = "normalize_text" /\ call.s \in {None, ""} => ret = ""

\* C12 witness: a string with upper case, punctuation and runs of whitespace was
\* normalized twice.
C12_Witness ==
    /\ pc = "again" /\ call.op = "normalize_text"
    /\ call.s = "  Hello,  World! " /\ ret = "hello world"

\* C13: categorize_record_with_meta returns a (category, confidence, reason)
\* triple, never an error, for a filenames list with an entry that is not a str,
\* an OCR list with a missing entry, and a comment that is absent or None.
C13_NeverRaises ==
    Returned("categorize_malformed") => Len(ret) = 3 /\ ret # Raise(TypeError)

\* no strong rule matched the call's comment, OCR texts or filenames
NoStrongMatch ==
    /\ CommentCategory = None
    /\ \A i \in DOMAIN call.ocr_texts : ~OcrMatches(i)
    /\ \A i \in DOMAIN call.filenames : ~FilenameMatches(i)
\* the categories the catalog matches for the call's combined text
CallMatched == MatchedCategories(call.record, call.ocr_texts)
\* the 1-based index of c in priority_order
IndexInOrder(c) == CHOOSE i \in DOMAIN PRIORITY_ORDER : PRIORITY_ORDER[i] = c
\* the matched categories that appear in priority_order
MatchedInOrder == CallMatched \cap Range(PRIORITY_ORDER)

\* C14: when the catalog matches several categories and no strong rule matched,
\* the result is decided by the catalog and is the matched category with the
\* lowest index in priority_order; a matched category in priority_order wins over
\* every matched category absent from it.
C14_CatalogTieBreak ==
    Categorized /\ NoStrongMatch /\ Cardinality(CallMatched) >= 2
    => \A res \in Results :
           /\ res[3] \in {"keyword_map", "regex_map"}
           /\ res[1] \in CallMatched
           /\ MatchedInOrder # {}
              => /\ res[1] \in MatchedInOrder
                 /\ \A d \in MatchedInOrder : IndexInOrder(res[1]) <= IndexInOrder(d)

\* C14 witness: a category of the order won over a matched category absent from it.
C14_Witness ==
    /\ Categorized /\ NoStrongMatch
    /\ MatchedInOrder # {} /\ CallMatched \ MatchedInOrder # {}
    /\ ret[1] \in MatchedInOrder

\* C14 witness of the order itself: two matched categories of the order, the one
\* with the lower index returned.
C14_WitnessOrder ==
    /\ Categorized /\ NoStrongMatch
    /\ Cardinality(MatchedInOrder) >= 2
    /\ \A d \in MatchedInOrder : IndexInOrder(ret[1]) <= IndexInOrder(d)

\* the category of the first catalog entry, in catalog order (keyword_map, then
\* regex_map), that matches the normalized text t and names a category
FirstCatalogCategory(t) ==
    IF \E i \in DOMAIN KEYWORD_MAP :
           Contains(t, norm(KEYWORD_MAP[i][1])) /\ KEYWORD_MAP[i][2] # ""
    THEN KEYWORD_MAP[CHOOSE i \in DOMAIN KEYWORD_MAP :
                        /\ Contains(t, norm(KEYWORD_MAP[i][1]))
                        /\ KEYWORD_MAP[i][2] # ""
                        /\ \A j \in 1..(i - 1) :
                               ~(Contains(t, norm(KEYWORD_MAP[j][1]))
                                 /\ KEYWORD_MAP[j][2] # "")][2]
    ELSE REGEX_MAP[CHOOSE i \in DOMAIN REGEX_MAP :
                      /\ SearchWord(t, REGEX_MAP[i].alts)
                      /\ \A j \in 1..(i - 1) : ~SearchWord(t, REGEX_MAP[j].alts)].cat

\* C15: when several matched catalog categories are all absent from
\* priority_order, the category whose catalog entry matched first in catalog
\* order is returned.
C15_AbsentTieByInsertion ==
    /\ Categorized /\ NoStrongMatch
    /\ Cardinality(CallMatched) >= 2 /\ MatchedInOrder = {}
    => \A res \in Results :
           res[1] = FirstCatalogCategory(
                        Join(CombinedTexts(norm(EffectiveComment(call.record)),
                                           call.ocr_texts), " \n "))

\* the call's normalized effective comment and its combined text
CallComment == norm(EffectiveComment(call.record))
CallCombined == Join(CombinedTexts(CallComment, call.ocr_texts), " \n ")
\* no stage before the final decision produced a category for the call
NothingDecided ==
    /\ NoStrongMatch
    /\ CallMatched = {}
    /\ PostAdjustment(CallComment, call.model_pred) = NoResult
    /\ WeakSignals(CallCombined, call.filenames, call.model_pred, 0) = NoResult
    /\ call.model_pred \in {None, "unclear_insufficient_info"}

Has(fn, k) == Contains(MapChars(fn, "lower", 1), k)
\* the category the filename hints of C18 assign to fn, None if there is none
HintOf(fn) ==
    IF Has(fn, "screenshot") /\ Has(fn, "error") THEN "functional_errors"
    ELSE IF Has(fn, "login") \/ Has(fn, "signin") THEN "authentication_access"
    ELSE IF Has(fn, "timeout") \/ Has(fn, "network") THEN "connectivity_problems"
    ELSE None
\* fn has no indicative substring and no digit
Plain(fn) ==
    /\ \A k \in {"login", "signin", "error", "timeout", "network"} : ~Has(fn, k)
    /\ ~SearchDigit(fn)
\* a call with an empty comment, no OCR text and one filename
FilenameOnly ==
    Categorized /\ CallComment = "" /\ call.ocr_texts = <<>> /\ Len(call.filenames) = 1

C18_WitnessPlain ==
    /\ FilenameOnly /\ Plain(call.filenames[1]) /\ call.model_pred = None
    /\ ret[1] = "unclear_insufficient_info"

\* the reference scorer of C19, in hundredths, one step per clause of the claim
RefBase(sr) == IF sr THEN 70 ELSE 30
RefKeywords(v, n) == IF n >= 1 THEN Max(v, 70 + Min(20, 5 * (n - 1))) ELSE v
RefStructured(v, st) == IF st /\ v < 85 THEN v + 5 ELSE v
RefModel(v, mu) == IF mu /\ v < 70 THEN 70 ELSE v
RefClamp(v) == Max(0, Min(99, v))
RefScore(n, st, sr, mu) ==
    RefClamp(RefModel(RefStructured(RefKeywords(RefBase(sr), n), st), mu))

\* C19: _compute_confidence equals the reference scorer for every keyword count
\* and every combination of flags; it does not decrease when the count grows by
\* one with the flags fixed, and never exceeds 0.90.
C19_ReferenceScorer ==
    Returned("compute_confidence")
    => /\ ret = RefScore(call.matched_keywords, call.structured_present,
                         call.strong_rule, call.model_used)
       /\ ret <= compute_confidence(call.matched_keywords + 1,
                                    call.structured_present, call.strong_rule,
                                    call.model_used, "functional_errors")
       /\ ret <= 90

\* C19 witness: four keywords with structured tokens stay at 0.85, the bonus
\* withheld at the threshold.
C19_Witness ==
    /\ Returned("compute_confidence")
    /\ call.matched_keywords = 4 /\ call.structured_present /\ ret = 85

\* C20: post_adjustment returns crash_stability on an explicit crash signal
\* whatever else holds; otherwise connectivity_problems on an explicit
\* connectivity signal; otherwise authentication_access on an explicit auth
\* signal only if the prediction is None, ui_ux_issues or
\* unclear_insufficient_info; otherwise the prediction unchanged.
C20_PostAdjustmentPrecedence ==
    Returned("post_adjustment")
    => /\ call.signals.explicit_crash => ret = "crash_stability"
       /\ ~call.signals.explicit_crash /\ call.signals.explicit_connectivity
          => ret = "connectivity_problems"
       /\ /\ ~call.signals.explicit_crash /\ ~call.signals.explicit_connectivity
          /\ call.signals.explicit_auth
          => ret = IF call.model_pred \in {None, "ui_ux_issues",
                                           "unclear_insufficient_info"}
                   THEN "authentication_access" ELSE call.model_pred
       /\ /\ ~call.signals.explicit_crash /\ ~call.signals.explicit_connectivity
          /\ ~call.signals.explicit_auth
          => ret = call.model_pred

\* C20 witness: an auth signal alone left a performance prediction as it was.
C20_Witness ==
    /\ Returned("post_adjustment")
    /\ call.signals.explicit_auth /\ ~call.signals.explicit_crash
    /\ ~call.signals.explicit_connectivity
    /\ call.model_pred = "performance_issues" /\ ret = "performance_issues"

\* the signals of the call's comment
CallSignals == ExplicitSignals(CallComment)
\* stages 1-4 (the strong rules and the catalog) produced no category
NoneOfStages1to4 == NoStrongMatch /\ CallMatched = {}

C21_WitnessEcho ==
    /\ Categorized /\ NoneOfStages1to4
    /\ call.model_pred = "ui_ux_issues"
    /\ ret = <<"ui_ux_issues", 70, "model_pred">>

\* a call of categorize_record_with_meta, from any of the input pools
Classified ==
    pc # "idle" /\ call.op \in {"categorize_record_with_meta", "categorize_weak"}
\* the results the state holds for it
Outcomes ==
    IF ~Classified THEN {}
    ELSE IF pc = "again" THEN {ret, ret2} ELSE {ret}
\* the weak-signal stage runs on a text: nothing before it returned
WeakStageRuns ==
    /\ Classified /\ NoneOfStages1to4
    /\ PostAdjustment(CallComment, call.model_pred) = NoResult
    /\ CallCombined # ""
\* the call's filenames, normalized and joined
CallFilenames == Join(NormEach(call.filenames, 1), " \n ")
\* the number of generic error tokens in the text c
GenericCount(c) == Cardinality({tok \in GenericErrorTokens : Contains(c, tok)})

\* sub-rule k of the weak-signal resolver, in the order of C22, hits the text c
\* (fn is the joined filenames); the stage runs without a usable prediction
WeakHit(k, c, fn) ==
    CASE k = 1 -> \/ /\ SearchDigit(c)
                     /\ SearchWord(c, {"rs", "inr", "amount", "total", "balance",
                                       "coin", "coins"})
                  \/ match_any(c, {"wrong", "mismatch", "not matching", "less",
                                   "more", "only", "difference"})
      [] k = 2 -> \/ GenericCount(c) >= 2
                  \/ GenericCount(c) >= 1 /\ structured_tokens_present(c)
                  \/ /\ GenericCount(c) = 1
                     /\ match_any(c, {"button", "screen", "page", "icon", "text",
                                      "label", "alignment", "visible", "display"})
      [] k = 3 -> match_any(c, WeakConnectivity)
      [] k = 4 -> match_any(c, WeakAuth)
      [] k = 5 -> match_any(c, WeakIntegration)
      [] k = 6 -> /\ \E tok \in UiTokens : Contains(c, tok)
                  /\ GenericCount(c) = 0
      [] k = 7 -> /\ match_any(c, PerfTokens)
                  /\ ~match_any(c, {"success", "completed", "done"})
      [] k = 8 -> fuzzy_contains(c, "coins", 1)
      [] k = 9 -> fuzzy_contains(c, "quality", 1) \/ fuzzy_contains(c, "damage", 1)
      [] k = 10 -> \E tok \in UiTokens \cup WeakIntegration \cup WeakConnectivity :
                       Contains(fn, tok)

\* the <<category, reason>> pairs sub-rule k returns
WeakOutcomes(k) ==
    CASE k = 1 -> {<<"data_integrity_issues", "weak_signal_data_integrity">>}
      [] k = 2 -> {<<"functional_errors", "weak_signal_generic_strong">>,
                   <<"ui_ux_issues", "weak_signal_uiux_from_generic">>}
      [] k = 3 -> {<<"connectivity_problems", "weak_signal_connectivity">>}
      [] k = 4 -> {<<"authentication_access", "weak_signal_auth">>}
      [] k = 5 -> {<<"integration_failures", "weak_signal_integration">>}
      [] k = 6 -> {<<"ui_ux_issues", "weak_signal_uiux_loose">>}
      [] k = 7 -> {<<"performance_issues", "weak_signal_performance">>}
      [] k = 8 -> {<<"data_integrity_issues", "fuzzy_data_integrity">>}
      [] k = 9 -> {<<"product_quality_issues", "fuzzy_quality">>}
      [] k = 10 -> {<<"ui_ux_issues", "weak_signal_from_filename_ui">>,
                    <<"integration_failures", "weak_signal_from_filename_integration">>,
                    <<"connectivity_problems", "weak_signal_from_filename_connectivity">>}

\* sub-rule k hits the call's text and no sub-rule before it does
FirstWeakHit(k) ==
    /\ WeakHit(k, CallCombined, CallFilenames)
    /\ \A j \in 1..(k - 1) : ~WeakHit(j, CallCombined, CallFilenames)

\* C22: the weak-signal resolver evaluates its sub-rules in the order data
\* integrity, generic error tokens, connectivity, auth, integration, UI/UX,
\* performance, fuzzy coins, fuzzy quality/damage, filename scan, and the first
\* sub-rule that hits gives the category and the reason.
C22_WeakSignalOrder ==
    WeakStageRuns
    => \A res \in Outcomes :
           \A k \in 1..10 : FirstWeakHit(k) => <<res[1], res[3]>> \in WeakOutcomes(k)

\* C22 witness: a text with mismatch wording and a weak connectivity keyword was
\* resolved to data_integrity_issues.
C22_Witness ==
    /\ WeakStageRuns
    /\ WeakHit(1, CallCombined, CallFilenames) /\ WeakHit(3, CallCombined, CallFilenames)
    /\ match_any(CallCombined, {"wrong", "mismatch", "not matching"})
    /\ ret[1] = "data_integrity_issues" /\ ret[3] = "weak_signal_data_integrity"

\* C22 witness of the second example: a weak connectivity and a weak auth keyword
\* were resolved to connectivity_problems.
C22_WitnessConnAuth ==
    /\ WeakStageRuns
    /\ FirstWeakHit(3) /\ WeakHit(4, CallCombined, CallFilenames)
    /\ ret[1] = "connectivity_problems" /\ ret[3] = "weak_signal_connectivity"

\* the UI tokens the generic-error rule looks for
GenericUiTokens ==
    {"button", "screen", "page", "icon", "text", "label", "alignment", "visible",
     "display"}
\* a model prediction other than unclear was supplied
PredictionPresent ==
    Truthy(call.model_pred) /\ call.model_pred # "unclear_insufficient_info"
\* sub-rule k, one of those after the generic-error rule, is the first of them
\* to hit the call's text
FirstLaterHit(k) ==
    /\ WeakHit(k, CallCombined, CallFilenames)
    /\ \A j \in 3..(k - 1) : ~WeakHit(j, CallCombined, CallFilenames)

C23_WitnessUi ==
    /\ WeakStageRuns /\ GenericCount(CallCombined) = 1
    /\ ~structured_tokens_present(CallCombined)
    /\ ret[1] = "ui_ux_issues" /\ ret[3] = "weak_signal_uiux_from_generic"

\* C23 witness of the fall through: one generic token alone, and the connectivity
\* sub-rule decided.
C23_WitnessFallThrough ==
    /\ WeakStageRuns /\ GenericCount(CallCombined) = 1
    /\ ~structured_tokens_present(CallCombined)
    /\ ~match_any(CallCombined, GenericUiTokens)
    /\ ret[3] = "weak_signal_connectivity"

\* the category and reason of the filename scan for the joined filenames fn, in
\* the order UI, integration, connectivity
FilenameScanOutcome(fn) ==
    IF \E tok \in UiTokens : Contains(fn, tok)
    THEN <<"ui_ux_issues", "weak_signal_from_filename_ui">>
    ELSE IF \E tok \in WeakIntegration : Contains(fn, tok)
    THEN <<"integration_failures", "weak_signal_from_filename_integration">>
    ELSE <<"connectivity_problems", "weak_signal_from_filename_connectivity">>

\* C24: whenever no strong rule, catalog entry, post-adjustment or text-based
\* weak sub-rule produced a category, an empty comment and empty OCR texts
\* included, a filename with a UI, integration or connectivity keyword decides:
\* ui_ux_issues, integration_failures or connectivity_problems, in that order.
C24_FilenameLastResort ==
    /\ Classified /\ NoneOfStages1to4
    /\ PostAdjustment(CallComment, call.model_pred) = NoResult
    /\ \A k \in 1..9 : ~WeakHit(k, CallCombined, CallFilenames)
    /\ WeakHit(10, CallCombined, CallFilenames)
    => \A res \in Outcomes : <<res[1], res[3]>> = FilenameScanOutcome(CallFilenames)

\* group k of categorize_from_comment, numbered as in C25, matches the
\* normalized comment t
GroupHit(k, t) ==
    CASE k = 1 -> \/ SearchWord(t, MoneyAlts)
                  \/ SearchWord(t, {"amount mismatch", "wrong amount"})
                  \/ SearchOnlyDigits(t)
      [] k = 2 -> SearchWord(t, AppNotOpenAlts)
      [] k = 3 -> SearchWord(t, LagAlts)
      [] k = 4 -> SearchWord(t, NetAlts \cup NetLocalAlts)
      [] k = 5 -> SearchWord(t, NotificationAlts)
      [] k = 6 -> SearchWord(t, RateCardAlts)
      [] k = 7 -> SearchWord(t, QualityAlts)
      [] k = 8 -> \E w \in {"feature request", "feature", "would be great",
                            "please add", "enhancement"} : Contains(t, w)
      [] k = 9 -> \E w \in {"unable to connect", "no internet", "network error",
                            "api failed", "server error", "timeout"} : Contains(t, w)
      [] k = 10 -> \/ \E w \in {"login", "sign in", "authentication", "password",
                                "otp", "permission denied", "access denied",
                                "session", "pin", "mpin", "forgot password"} :
                          Contains(t, w)
                   \/ SearchWord(t, {"otp nahi", "otp not received", "otp failed",
                                     "cannot login", "cant login"})
      [] k = 11 -> \E w \in {"slow", "lag", "freeze", "freezes", "hanging",
                             "loading forever", "takes too long", "sluggish"} :
                       Contains(t, w)
      [] k = 12 -> \E w \in {"crash", "crashes", "force close", "stopped working",
                             "app closed unexpectedly"} : Contains(t, w)
      [] k = 13 -> \/ \E w \in {"printer", "bluetooth", "weighing scale",
                                "payment gateway", "google", "firebase", "upi",
                                "razorpay", "gateway", "transaction failed"} :
                          Contains(t, w)
                   \/ SearchWord(t, WalletAlts \cup PaymentFailAlts)
      [] k = 14 -> \E w \in {"settings", "configuration", "preference",
                             "does not save setting", "default value wrong"} :
                       Contains(t, w)
      [] k = 15 -> \E w \in {"wrong total", "incorrect", "mismatch", "duplicate",
                             "missing data", "data lost", "not saved"} :
                       Contains(t, w)
      [] k = 16 -> \E w \in {"ui", "ux", "alignment", "overlap", "cut off",
                             "hard to read", "too small", "button not visible"} :
                       Contains(t, w)
      [] k = 17 -> \E w \in {"does not work", "not working", "cannot", "can't",
                             "fails", "not possible", "broken", "stuck action"} :
                       Contains(t, w)
      [] k = 18 -> \E w \in {"only on my phone", "android 14", "ios", "tablet",
                             "resolution", "screen size"} : Contains(t, w)

\* the category of group k
GroupCategory(k) ==
    <<"data_integrity_issues", "functional_errors", "performance_issues",
      "connectivity_problems", "feature_requests", "functional_errors",
      "product_quality_issues", "feature_requests", "connectivity_problems",
      "authentication_access", "performance_issues", "crash_stability",
      "integration_failures", "configuration_settings", "data_integrity_issues",
      "ui_ux_issues", "functional_errors", "compatibility_issues">>[k]

\* the groups that match the comment of the call
GroupsHit == {k \in 1..18 : GroupHit(k, norm(call.comment))}

\* C25: categorize_from_comment returns the category of the earliest group, in
\* the fixed order of its 18 groups, that matches the comment, and None only if
\* no group matches.
C25_CommentFirstMatch ==
    Returned("categorize_from_comment")
    => /\ \A k \in GroupsHit :
              (\A j \in GroupsHit : k <= j) => ret = GroupCategory(k)
       /\ ret = None <=> GroupsHit = {}

\* C25 witness: a comment of the performance group 3 and the connectivity group 4
\* got performance_issues.
C25_Witness ==
    /\ Returned("categorize_from_comment")
    /\ {3, 4} \subseteq GroupsHit /\ 1 \notin GroupsHit /\ 2 \notin GroupsHit
    /\ ret = "performance_issues"

\* some regex_map pattern matches the call's combined text
RegexContributed ==
    \E i \in DOMAIN REGEX_MAP : SearchWord(norm(CallCombined), REGEX_MAP[i].alts)

\* C26: when the catalog decides the category, the reason is regex_map if a
\* regex_map pattern matched and keyword_map if only keyword_map substrings
\* matched, and the confidence is at least 0.70.
C26_CatalogReason ==
    Classified /\ NoStrongMatch /\ CallMatched # {}
    => \A res \in Outcomes :
           /\ res[3] = (IF RegexContributed THEN "regex_map" ELSE "keyword_map")
           /\ res[2] >= 70

(***************************************************************************)
(* Pipeline passes                                                         *)
(***************************************************************************)
\* the first relabel pass has run in the process of first_pass, both without a
\* predictor
RelabeledAfterFirstPass ==
    /\ pc = "relabeled"
    /\ call.pass = "first_relabel"
    /\ call.prev_pred = None
    /\ call.model_pred = None
    /\ call.order = call.prev_order

\* C27: with no model predictor and a deterministic translator, relabel_in_memory
\* over the output of first_pass gives every record the category first_pass gave
\* it, records with several attachments included, whose OCR texts first_pass
\* evaluated one by one and stored joined in extracted_text.
C27_RelabelReproducible ==
    RelabeledAfterFirstPass => ret2.category = ret.category

\* the keywords of the three explicit post-adjustment signals
SignalKeywords ==
    {"crash", "force close", "stopped working", "unable to connect",
     "network error", "api failed", "timeout", "login", "sign in", "password", "otp"}
\* one of the three signals is set for the text c
AnySignal(c) ==
    \/ ExplicitSignals(c).explicit_crash
    \/ ExplicitSignals(c).explicit_connectivity
    \/ ExplicitSignals(c).explicit_auth
\* the reasons of the weak-signal stage
WeakStageReasons ==
    {"weak_signal_data_integrity", "weak_signal_generic_strong",
     "model_pred_weak_generic", "weak_signal_uiux_from_generic",
     "weak_signal_connectivity", "weak_signal_auth", "weak_signal_integration",
     "weak_signal_uiux_loose", "weak_signal_performance", "fuzzy_data_integrity",
     "fuzzy_quality", "weak_signal_from_filename_ui",
     "weak_signal_from_filename_integration",
     "weak_signal_from_filename_connectivity"}

\* C28: a supplied model prediction pre-empts every weak-signal heuristic. Every
\* signal keyword is a keyword of categorize_from_comment, so whenever stages 1-4
\* produce no category the three explicit signals are false and a prediction
\* other than unclear is returned with reason model_pred; the weak-signal stage
\* runs only when the prediction is None, empty or unclear; the reasons
\* post_adjustment and model_pred_weak_generic are never returned.
C28_PredictionPreempts ==
    /\ pc = "idle" => \A kw \in SignalKeywords : categorize_from_comment(kw) # None
    /\ Returned("categorize_from_comment") /\ AnySignal(norm(call.comment))
       => ret # None
    /\ Classified /\ NoneOfStages1to4 => ~AnySignal(CallComment)
    /\ Classified /\ NoneOfStages1to4 /\ PredictionPresent
       => \A res \in Outcomes : res[1] = call.model_pred /\ res[3] = "model_pred"
    /\ WeakStageRuns => ~PredictionPresent
    /\ \A res \in Outcomes :
           /\ res[3] \in WeakStageReasons => ~PredictionPresent
           /\ res[3] \notin {"post_adjustment", "model_pred_weak_generic"}

\* C28 witness: a text on which a weak-signal sub-rule would hit came with a
\* prediction, and the prediction was returned with reason model_pred.
C28_Witness ==
    /\ Classified /\ NoneOfStages1to4 /\ PredictionPresent
    /\ \E k \in 1..10 : WeakHit(k, CallCombined, CallFilenames)
    /\ GenericCount(CallCombined) = 1
    /\ ret = <<call.model_pred, 70, "model_pred">>

\* C28 witness of the other side: the weak-signal stage decided a call whose
\* prediction was unclear.
C28_WitnessUnclear ==
    /\ Classified /\ call.model_pred = "unclear_insufficient_info"
    /\ ret[3] \in WeakStageReasons

\* the catalog keywords matched in the call's text
CallKeywords == keyword_matches(CallCombined)[1]

\* C29: every result with reason fuzzy_data_integrity has confidence 0.75 or
\* more and every result with reason fuzzy_quality 0.70 or more, every result of
\* a strong rule (strong_comment_regex, strong_ocr_regex, filename_rule) has
\* confidence exactly 0.70, and every other weak-signal result with no catalog
\* keyword matched has confidence at most 0.35.
C29_FuzzyScoresHigher ==
    \A res \in Outcomes :
        /\ res[3] = "fuzzy_data_integrity" => res[2] >= 75
        /\ res[3] = "fuzzy_quality" => res[2] >= 70
        /\ res[3] \in {"strong_comment_regex", "strong_ocr_regex", "filename_rule"}
           => res[2] = 70
        /\ /\ res[3] \in WeakStageReasons \ {"fuzzy_data_integrity", "fuzzy_quality"}
           /\ CallKeywords = {}
           => res[2] <= 35

\* C29 witness: a text one edit away from coins was scored 0.75, above the 0.70
\* of a strong rule.
C29_Witness ==
    /\ Classified /\ CallKeywords = {}
    /\ ret[3] = "fuzzy_data_integrity" /\ ret[2] = 75

\* C29 witness of the other reasons: a fuzzy_quality result, and a weak-signal
\* result at 0.35.
C29_WitnessQuality == Classified /\ ret[3] = "fuzzy_quality" /\ ret[2] \in {70, 75}
C29_WitnessWeak ==
    /\ Classified /\ ret[3] \in WeakStageReasons \ {"fuzzy_data_integrity", "fuzzy_quality"}
    /\ ret[2] = 35

\* the engine's result in the relabel pass that has just run
PassResult ==
    RelabelResult(WithTranslation(ret, detect_and_translate(Or(ret.comment, ""))),
                  call.model_pred, call.order)
\* the pass that has just run is a second or later relabel pass and the
\* predictor gave what it gave in the pass before: the inputs are unchanged
RepeatedPass ==
    pc = "relabeled" /\ call.pass = "later_relabel" /\ call.model_pred = call.prev_pred

\* the pass stored the engine's result res: the larger confidence, the new
\* category and reason
PassStores(res) ==
    /\ ret2.label_confidence >= ret.label_confidence
    /\ ret2.label_confidence = Max(ret.label_confidence, res[2])
    /\ ret2.category = res[1]
    /\ ret2.label_reason = res[3]

\* C30: across relabel passes over a record the stored label_confidence never
\* decreases, each pass storing the maximum of the previous value and the new
\* confidence, while category and label_reason are overwritten with the newest
\* result; a second relabel pass over unchanged inputs changes nothing.
C30_RelabelPasses ==
    /\ pc = "relabeled" => PassStores(PassResult)
    /\ RepeatedPass => ret2 = ret

====
